---- MODULE Spec2Model ----
(***************************************************************************)
(* Query-structure validation and field-name normalization of             *)
(* IntegratedQueryGenerator (src/dataset_generation/                       *)
(* claude_query_executor.py): validate_and_fix_query, normalize_field_names *)
(* and is_valid_query_structure, as generate_query chains them once the    *)
(* model reply has been parsed by json.loads; the question loop of         *)
(* process_questions_file around generate_query; and the DatabaseConnection *)
(* class of src/eval/query_demo.py and src/eval/model_evaluator.py.        *)
(*                                                                         *)
(* A JSON value is a record [t, v]: t is the Python type json.loads gives  *)
(* ("map" dict, "seq" list, "str", "num", "bool", "null"), v the content.  *)
(* A dict is the sequence of its <<key, value>> items in iteration         *)
(* (insertion) order, keys pairwise distinct; a str is a TLA+ string.      *)
(***************************************************************************)
EXTENDS Integers, Sequences, FiniteSets, TLC

VARIABLES
    pc,          \* position in generate_query: "parsed", "fixed", "normalized", "returned", "raised"
    parsed,      \* `query` after json.loads(response)            (line 482)
    fixed,       \* `query` after validate_and_fix_query(query)   (line 485)
    normalized,  \* `query` after normalize_field_names(query)    (line 488)
    result,      \* the value generate_query returns               (line 494)
    error,       \* the message of the exception generate_query raises (line 497)
    calls,       \* the sub-operations called so far, in call order
    valid,       \* the value is_valid_query_structure returns when called on its own
    success_count,       \* self.success_count                     (line 123)
    error_count,         \* self.error_count                       (line 124)
    error_log,           \* self.error_log                         (line 122)
    input_file,          \* the lines of input_file                (line 277)
    line_number,         \* `line_number` of the loop              (line 278)
    question,            \* `question` of the loop                 (line 279)
    successful_queries,  \* `successful_queries`                   (line 268)
    summary,             \* the figures of the printed summary    (lines 335-339)
    inflight,    \* the locals of the generate_query calls that run interleaved
    db_module,   \* the file whose DatabaseConnection runs: "query_demo" or "model_evaluator"
    instance,    \* DatabaseConnection._instance: 0 is None, else the number of the object
    client,      \* DatabaseConnection.client: 0 is None, else the number of the MongoClient
    objects,     \* the DatabaseConnection objects constructed so far
    clients,     \* the MongoClient objects created so far
    warmed,      \* the warm-up query has succeeded on the client
    db_pc,       \* position of the running call: "idle", "init", "warm_up", "constructed"
    via,         \* the running construction comes from "get_instance" or is "direct"
    db_history,  \* the calls that have ended: what was called, and the object given back
    max_retries,       \* self.max_retries of GPT4QueryGenerator
    attempt,           \* `attempt` of the loop of _call_openai_with_retry
    api_calls,         \* the chat.completions.create calls made so far, with their outcome
    sleeps,            \* the arguments of the time.sleep calls made so far, in order
    retry_pc,          \* position in _call_openai_with_retry: "loop", "sleep", "returned"
    response_content,  \* the value _call_openai_with_retry returns
    num_prompts,       \* the argument of generate_prompts
    prompts,           \* `prompts` of generate_prompts
    batch_size,        \* `batch_size` of generate_prompts
    prompts_pc,        \* position in generate_prompts: "while", "call", "returned"
    returned_prompts,  \* the value generate_prompts returns
    rows_read, store_ops, offset, loader_pc,
    train_exists, val_exists, train_file_id, val_file_id, job_id, ft_calls, ft_pc,
    questions,            \* `questions` of run_evaluation
    generated_query,      \* `query` of evaluate_query
    execution_result,     \* `execution_result` of evaluate_query
    claude_eval,          \* `claude_eval` of evaluate_query
    evaluation,           \* the Dict evaluate_query returns
    results,              \* `results` of run_evaluation
    total_score,          \* `total_score` of run_evaluation, in fifths
    execution_successes,  \* `execution_successes` of run_evaluation
    aggregate_results,    \* the Dict run_evaluation returns
    eval_pc,
    payload, store_calls

\* the locals of one generate_query call
call_vars == <<pc, parsed, fixed, normalized, result, error, calls>>
\* the fields of the generator object that process_questions_file updates
generator_vars == <<success_count, error_count, error_log>>
\* the locals of process_questions_file
batch_vars == <<input_file, line_number, question, successful_queries, summary>>

\* the class attributes of DatabaseConnection and the calls made on it
db_vars == <<db_module, instance, client, objects, clients, warmed, db_pc, via, db_history>>

\* _call_openai_with_retry of natural_lanaguage_query_generator.py
retry_vars == <<max_retries, attempt, api_calls, sleeps, retry_pc, response_content>>

\* generate_prompts: its argument, its list, the size asked of the model,
\* its position and its return value
prompt_vars == <<num_prompts, prompts, batch_size, prompts_pc, returned_prompts>>

\* load_data: the number of rows of df, the calls made on the store so far,
\* `i` of the batch loop and the position
loader_vars == <<rows_read, store_ops, offset, loader_pc>>

\* finetune_model.main: whether the two files exist, its locals, the calls made
\* on the file system and on the API so far, and the position
finetune_vars == <<train_exists, val_exists, train_file_id, val_file_id, job_id, ft_calls, ft_pc>>

\* run_evaluation and evaluate_query: their locals, and the position.
\* Scores are held in fifths of a point, so that sum(scores) / len(scores)
\* of five whole scores is exact.
eval_vars == <<questions, generated_query, execution_result, claude_eval, evaluation, results, total_score, execution_successes, aggregate_results, eval_pc>>

\* the three executors: the payload handed to them, and the store call each
\* of them has chosen for it
exec_vars == <<payload, store_calls>>

\* the variables of the other programs of the repository
tool_vars == <<retry_vars, prompt_vars, loader_vars, finetune_vars, eval_vars, exec_vars>>

\* the variables of the generator and of DatabaseConnection
core_vars == <<call_vars, valid, generator_vars, batch_vars, inflight, db_vars>>

\* what a step of _call_openai_with_retry leaves alone
outside_retry == <<core_vars, prompt_vars, loader_vars, finetune_vars, eval_vars, exec_vars>>

\* what a step of generate_prompts leaves alone
outside_prompts == <<core_vars, loader_vars, finetune_vars, eval_vars, exec_vars>>

\* what a step of load_data leaves alone
outside_loader == <<core_vars, retry_vars, prompt_vars, finetune_vars, eval_vars, exec_vars>>

\* what a step of finetune_model.main leaves alone
outside_finetune == <<core_vars, retry_vars, prompt_vars, loader_vars, eval_vars, exec_vars>>

\* what a step of run_evaluation leaves alone
outside_evaluation == <<core_vars, retry_vars, prompt_vars, loader_vars, finetune_vars, exec_vars>>

\* what a step of an executor leaves alone
outside_executors == <<core_vars, retry_vars, prompt_vars, loader_vars, finetune_vars, eval_vars>>

vars == <<call_vars, valid, generator_vars, batch_vars, inflight, db_vars, tool_vars>>

----------------------------------------------------------------------------
(* JSON values *)

Str(s) == [t |-> "str", v |-> s]
Num(n) == [t |-> "num", v |-> n]
Bool(b) == [t |-> "bool", v |-> b]
Null == [t |-> "null", v |-> "None"]
Dict(items) == [t |-> "map", v |-> items]
List(items) == [t |-> "seq", v |-> items]

\* a local variable that has not been assigned yet
Unset == [t |-> "unset", v |-> "unset"]
\* the outcome of a call that raises ValueError(msg)
Raise(msg) == [t |-> "raise", v |-> msg]

IsDict(x) == x.t = "map"
IsList(x) == x.t = "seq"
IsStr(x) == x.t = "str"
IsBool(x) == x.t = "bool"

\* `key in d`
HasKey(d, key) == \E i \in 1..Len(d.v) : d.v[i][1] = key
\* `d[key]`
Get(d, key) == d.v[CHOOSE i \in 1..Len(d.v) : d.v[i][1] = key][2]
\* `d[key] = value` on the items of d: an existing key keeps its position
SetItem(items, key, value) ==
    IF \E i \in 1..Len(items) : items[i][1] = key
    THEN [i \in 1..Len(items) |->
            IF items[i][1] = key THEN <<key, value>> ELSE items[i]]
    ELSE Append(items, <<key, value>>)

----------------------------------------------------------------------------
(* str operations *)

Char(s, i) == SubSeq(s, i, i)
\* `s.startswith('$')`
StartsWithSigil(s) == Len(s) >= 1 /\ Char(s, 1) = "$"
\* `s[1:]`
DropFirst(s) == SubSeq(s, 2, Len(s))

\* the character classes [A-Z], [a-z], [a-z0-9] and . of the two patterns
UpperCase == {"A", "B", "C", "D", "E", "F", "G", "H", "I", "J", "K", "L",
              "M", "N", "O", "P", "Q", "R", "S", "T", "U", "V", "W", "X",
              "Y", "Z"}
LowerCase == {"a", "b", "c", "d", "e", "f", "g", "h", "i", "j", "k", "l",
              "m", "n", "o", "p", "q", "r", "s", "t", "u", "v", "w", "x",
              "y", "z"}
Digits == {"0", "1", "2", "3", "4", "5", "6", "7", "8", "9"}

IsUpper(c) == c \in UpperCase
IsLower(c) == c \in LowerCase
IsLowerOrDigit(c) == c \in LowerCase \/ c \in Digits
IsAnyChar(c) == c # "\n"

\* the lower-case letter of each upper-case letter
LowerOf ==
       ("A" :> "a") @@ ("B" :> "b") @@ ("C" :> "c") @@ ("D" :> "d")
    @@ ("E" :> "e") @@ ("F" :> "f") @@ ("G" :> "g") @@ ("H" :> "h")
    @@ ("I" :> "i") @@ ("J" :> "j") @@ ("K" :> "k") @@ ("L" :> "l")
    @@ ("M" :> "m") @@ ("N" :> "n") @@ ("O" :> "o") @@ ("P" :> "p")
    @@ ("Q" :> "q") @@ ("R" :> "r") @@ ("S" :> "s") @@ ("T" :> "t")
    @@ ("U" :> "u") @@ ("V" :> "v") @@ ("W" :> "w") @@ ("X" :> "x")
    @@ ("Y" :> "y") @@ ("Z" :> "z")

\* str.lower()
RECURSIVE lower(_)
lower(s) ==
    IF s = "" THEN ""
    ELSE LET c == Char(s, 1)
         IN (IF IsUpper(c) THEN LowerOf[c] ELSE c) \o lower(DropFirst(s))

\* the last index of the run of [a-z] that starts at index i
RECURSIVE LowerRunEnd(_, _)
LowerRunEnd(s, i) ==
    IF i + 1 <= Len(s) /\ IsLower(Char(s, i + 1)) THEN LowerRunEnd(s, i + 1) ELSE i

\* re.sub('(.)([A-Z][a-z]+)', r'\1_\2', text), scanning from index i
RECURSIVE sub_word(_, _)
sub_word(text, i) ==
    IF i > Len(text) THEN ""
    ELSE IF /\ i + 2 <= Len(text)
            /\ IsAnyChar(Char(text, i))
            /\ IsUpper(Char(text, i + 1))
            /\ IsLower(Char(text, i + 2))
         THEN LET e == LowerRunEnd(text, i + 2)
              IN Char(text, i) \o "_" \o SubSeq(text, i + 1, e) \o sub_word(text, e + 1)
         ELSE Char(text, i) \o sub_word(text, i + 1)

\* a faulty second substitution: the replacement is r'\1-\2'
RECURSIVE sub_hump_hyphen(_, _)
sub_hump_hyphen(s1, i) ==
    IF i > Len(s1) THEN ""
    ELSE IF /\ i + 1 <= Len(s1)
            /\ IsLowerOrDigit(Char(s1, i))
            /\ IsUpper(Char(s1, i + 1))
         THEN Char(s1, i) \o "-" \o Char(s1, i + 1) \o sub_hump_hyphen(s1, i + 2)
         ELSE Char(s1, i) \o sub_hump_hyphen(s1, i + 1)

\* re.sub('([a-z0-9])([A-Z])', r'\1_\2', s1), scanning from index i
RECURSIVE sub_hump(_, _)
sub_hump(s1, i) ==
    IF i > Len(s1) THEN ""
    ELSE IF /\ i + 1 <= Len(s1)
            /\ IsLowerOrDigit(Char(s1, i))
            /\ IsUpper(Char(s1, i + 1))
         THEN Char(s1, i) \o "_" \o Char(s1, i + 1) \o sub_hump(s1, i + 2)
         ELSE Char(s1, i) \o sub_hump(s1, i + 1)
----------------------------------------------------------------------------
(* the three sub-operations of the normalizer *)

\* the dict literal of normalize_field_names
field_mappings ==
       ("creationDate" :> "creation_date")
    @@ ("purchaseDate" :> "purchase_date")
    @@ ("fiscalYear" :> "fiscal_year")
    @@ ("lpaNumber" :> "lpa_number")
    @@ ("purchaseOrderNumber" :> "purchase_order_number")
    @@ ("requisitionNumber" :> "requisition_number")
    @@ ("acquisitionType" :> "acquisition_type")
    @@ ("subAcquisitionType" :> "sub_acquisition_type")
    @@ ("acquisitionMethod" :> "acquisition_method")
    @@ ("subAcquisitionMethod" :> "sub_acquisition_method")
    @@ ("departmentName" :> "department_name")
    @@ ("supplierCode" :> "supplier_code")
    @@ ("supplierName" :> "supplier_name")
    @@ ("supplierQualifications" :> "supplier_qualifications")
    @@ ("supplierZipCode" :> "supplier_zip_code")
    @@ ("itemName" :> "item_name")
    @@ ("itemDescription" :> "item_description")
    @@ ("unitPrice" :> "unit_price")
    @@ ("totalPrice" :> "total_price")
    @@ ("classificationCodes" :> "classification_codes")
    @@ ("normalizedUnspsc" :> "normalized_unspsc")
    @@ ("commodityTitle" :> "commodity_title")
    @@ ("classTitle" :> "class_title")
    @@ ("familyTitle" :> "family_title")
    @@ ("segmentTitle" :> "segment_title")

\* a faulty convert_to_snake_case: the final .lower() is missing
convert_to_snake_case_no_lower(text) ==
    LET s1 == sub_word(text, 1)
    IN sub_hump(s1, 1)

\* convert_to_snake_case(text)
convert_to_snake_case(text) ==
    LET s1 == sub_word(text, 1)
    IN lower(sub_hump(s1, 1))

\* a faulty lookup: field_mappings.get(name, name), the conversion is never applied
mapping_get_table_only(name) ==
    IF name \in DOMAIN field_mappings
    THEN field_mappings[name]
    ELSE name

\* field_mappings.get(name, convert_to_snake_case(name))
mapping_get(name) ==
    IF name \in DOMAIN field_mappings
    THEN field_mappings[name]
    ELSE convert_to_snake_case(name)

\* a faulty new_key: the test key.startswith('$') is missing, every key is resolved
new_key_of_every_key(key) == mapping_get(key)

\* the new_key of fix_fields: operator keys are kept, field keys are resolved
new_key_of(key) ==
    IF StartsWithSigil(key) THEN key ELSE mapping_get(key)

\* a faulty fix_reference: the sigil is stripped and never reattached
fix_reference_no_sigil(value) ==
    IF IsStr(value) /\ StartsWithSigil(value.v)
    THEN Str(mapping_get(DropFirst(value.v)))
    ELSE value

\* the rewriting of a field reference held as a dict value, before the
\* recursive call: value = f"${...}"
fix_reference(value) ==
    IF IsStr(value) /\ StartsWithSigil(value.v)
    THEN Str("$" \o mapping_get(DropFirst(value.v)))
    ELSE value

RECURSIVE fix_fields(_)

\* the (new_key, new value) assignments the dict loop of fix_fields makes,
\* one per item of obj, in iteration order
fix_items(obj) ==
    [i \in 1..Len(obj.v) |->
        <<new_key_of(obj.v[i][1]), fix_fields(fix_reference(obj.v[i][2]))>>]

\* a faulty loop: an assignment to a key that new_dict already has is skipped
RECURSIVE assign_all_first_wins(_, _)
assign_all_first_wins(new_dict, assignments) ==
    IF assignments = <<>> THEN new_dict
    ELSE assign_all_first_wins(
             IF \E i \in 1..Len(new_dict) : new_dict[i][1] = Head(assignments)[1]
             THEN new_dict
             ELSE Append(new_dict, Head(assignments)),
             Tail(assignments))

\* new_dict after the assignments new_dict[new_key] = ... were made in order
RECURSIVE assign_all(_, _)
assign_all(new_dict, assignments) ==
    IF assignments = <<>> THEN new_dict
    ELSE assign_all(SetItem(new_dict, Head(assignments)[1], Head(assignments)[2]),
                    Tail(assignments))

\* fix_fields(obj)
fix_fields(obj) ==
    IF IsDict(obj) THEN Dict(assign_all(<<>>, fix_items(obj)))
    ELSE IF IsList(obj) THEN List([i \in 1..Len(obj.v) |-> fix_fields(obj.v[i])])
    ELSE obj

\* normalize_field_names(query)
normalize_field_names(query) == fix_fields(query)

\* a faulty validate_and_fix_query: the wrapper test comes before the stage-key test
validate_and_fix_query_wrapper_first(query) ==
    IF IsList(query)
    THEN Dict(<< <<"aggregate", Bool(TRUE)>>, <<"pipeline", query>> >>)
    ELSE IF IsDict(query)
    THEN IF HasKey(query, "aggregate") /\ HasKey(query, "pipeline")
         THEN query
         ELSE IF HasKey(query, "$match") \/ HasKey(query, "$group") \/ HasKey(query, "$sort")
         THEN Dict(<< <<"aggregate", Bool(TRUE)>>, <<"pipeline", List(<<query>>)>> >>)
         ELSE query
    ELSE Raise("Query format not recognized")

\* a faulty validate_and_fix_query: a list is wrapped as a single stage, like a dict
validate_and_fix_query_list_as_stage(query) ==
    IF IsList(query)
    THEN Dict(<< <<"aggregate", Bool(TRUE)>>, <<"pipeline", List(<<query>>)>> >>)
    ELSE IF IsDict(query)
    THEN IF HasKey(query, "$match") \/ HasKey(query, "$group") \/ HasKey(query, "$sort")
         THEN Dict(<< <<"aggregate", Bool(TRUE)>>, <<"pipeline", List(<<query>>)>> >>)
         ELSE query
    ELSE Raise("Query format not recognized")

\* a faulty validate_and_fix_query: the final raise is missing, the value falls through
validate_and_fix_query_no_raise(query) ==
    IF IsList(query)
    THEN Dict(<< <<"aggregate", Bool(TRUE)>>, <<"pipeline", query>> >>)
    ELSE IF IsDict(query)
            /\ (HasKey(query, "$match") \/ HasKey(query, "$group") \/ HasKey(query, "$sort"))
    THEN Dict(<< <<"aggregate", Bool(TRUE)>>, <<"pipeline", List(<<query>>)>> >>)
    ELSE query

\* a faulty validate_and_fix_query: a dict that lacks the wrapper is wrapped as a stage
validate_and_fix_query_wrap_bare(query) ==
    IF IsList(query)
    THEN Dict(<< <<"aggregate", Bool(TRUE)>>, <<"pipeline", query>> >>)
    ELSE IF IsDict(query)
    THEN IF HasKey(query, "$match") \/ HasKey(query, "$group") \/ HasKey(query, "$sort")
         THEN Dict(<< <<"aggregate", Bool(TRUE)>>, <<"pipeline", List(<<query>>)>> >>)
         ELSE IF HasKey(query, "aggregate") /\ HasKey(query, "pipeline")
         THEN query
         ELSE Dict(<< <<"aggregate", Bool(TRUE)>>, <<"pipeline", List(<<query>>)>> >>)
    ELSE Raise("Query format not recognized")

\* validate_and_fix_query(query)
validate_and_fix_query(query) ==
    IF IsList(query)
    THEN Dict(<< <<"aggregate", Bool(TRUE)>>, <<"pipeline", query>> >>)
    ELSE IF IsDict(query)
    THEN IF HasKey(query, "$match") \/ HasKey(query, "$group") \/ HasKey(query, "$sort")
         THEN Dict(<< <<"aggregate", Bool(TRUE)>>, <<"pipeline", List(<<query>>)>> >>)
         ELSE IF HasKey(query, "aggregate") /\ HasKey(query, "pipeline")
         THEN query
         ELSE query
    ELSE Raise("Query format not recognized")

\* a faulty is_valid_query_structure: the type of "aggregate" is not tested
is_valid_query_structure_any_aggregate(query) ==
    IF ~IsDict(query) THEN FALSE
    ELSE IF HasKey(query, "aggregate")
    THEN HasKey(query, "pipeline") /\ IsList(Get(query, "pipeline"))
    ELSE TRUE

\* a faulty is_valid_query_structure: the type of "pipeline" is not tested
is_valid_query_structure_any_pipeline(query) ==
    IF ~IsDict(query) THEN FALSE
    ELSE IF HasKey(query, "aggregate")
    THEN IsBool(Get(query, "aggregate")) /\ HasKey(query, "pipeline")
    ELSE TRUE

\* a faulty is_valid_query_structure: a dict without "aggregate" is rejected
is_valid_query_structure_aggregate_only(query) ==
    IF ~IsDict(query) THEN FALSE
    ELSE /\ HasKey(query, "aggregate")
         /\ IsBool(Get(query, "aggregate"))
         /\ HasKey(query, "pipeline")
         /\ IsList(Get(query, "pipeline"))

\* a faulty is_valid_query_structure: the first test lets a list through
is_valid_query_structure_list_ok(query) ==
    IF IsList(query) THEN TRUE
    ELSE IF ~IsDict(query) THEN FALSE
    ELSE IF HasKey(query, "aggregate")
    THEN /\ IsBool(Get(query, "aggregate"))
         /\ HasKey(query, "pipeline")
         /\ IsList(Get(query, "pipeline"))
    ELSE TRUE

\* is_valid_query_structure(query)
is_valid_query_structure(query) ==
    IF ~IsDict(query) THEN FALSE
    ELSE IF HasKey(query, "aggregate")
    THEN /\ IsBool(Get(query, "aggregate"))
         /\ HasKey(query, "pipeline")
         /\ IsList(Get(query, "pipeline"))
    ELSE TRUE

----------------------------------------------------------------------------
(* the replies of the model, as json.loads returns them *)

MaxEntries == 3   \* most items of a generated top-level dict
MaxLen == 2       \* most elements of a generated top-level list
MaxDepth == 3     \* nesting depth of the generated chains

\* the scalars: str (plain and field reference), number, bool, None
Scalars ==
    {Str("yes"), Str("Water Resources"), Str("just a string"),
     Str("$fooBar"), Str("$unitPrice"),
     Num(5), Bool(TRUE), Bool(FALSE), Null}

MatchStage == Dict(<< <<"$match", Dict(<< <<"departmentName", Str("Water Resources")>> >>)>> >>)
LimitStage == Dict(<< <<"$limit", Num(5)>> >>)

\* the items a generated top-level dict is made of
TopItems ==
    {<<"aggregate", Bool(TRUE)>>, <<"aggregate", Bool(FALSE)>>, <<"aggregate", Str("yes")>>,
     <<"pipeline", List(<<>>)>>, <<"pipeline", List(<<MatchStage>>)>>,
     <<"pipeline", Str("yes")>>,
     <<"$match", Dict(<< <<"fooBar", Str("$unitPrice")>> >>)>>,
     <<"$sort", Dict(<< <<"totalPrice", Num(5)>> >>)>>,
     <<"$limit", Num(5)>>,
     <<"$project", Dict(<< <<"total", Dict(<< <<"$add", List(<<Str("$unitPrice"), Str("$quantity")>>)>> >>)>> >>)>>,
     <<"departmentName", Str("$fooBar")>>,
     <<"department_name", Str("$supplierCode")>>,
     <<"Aggregate", Bool(TRUE)>>}

DistinctKeys(items) ==
    \A i, j \in 1..Len(items) : i # j => items[i][1] # items[j][1]

TopDicts ==
    {Dict(items) : items \in
        {m \in UNION {[1..n -> TopItems] : n \in 0..MaxEntries} : DistinctKeys(m)}}

\* the elements a generated top-level list is made of
ListElems ==
    {MatchStage, LimitStage, Str("$unitPrice"), Num(5), List(<<Str("$fooBar")>>)}

TopLists ==
    {List(elems) : elems \in UNION {[1..n -> ListElems] : n \in 0..MaxLen}}

\* chains: a scalar wrapped MaxDepth times in one-item dicts and one-element lists
ChainKeys == {"$group", "$sum", "_id", "fooBar", "supplierCode"}
ChainLeaves == {Str("$fooBar"), Str("$totalPrice"), Str("yes"), Num(5)}

RECURSIVE Chains(_)
Chains(d) ==
    IF d = 0 THEN ChainLeaves
    ELSE LET inner == Chains(d - 1)
         IN {Dict(<< <<k, x>> >>) : k \in ChainKeys, x \in inner}
            \cup {List(<<x>>) : x \in inner}

\* a find filter, and the examples of the prompt (lines 205-242), one of them unwrapped
DepartmentFilter == Dict(<< <<"departmentName", Str("Water Resources")>> >>)
GroupStage ==
    Dict(<< <<"$group", Dict(<< <<"_id", Str("$departmentName")>>,
                               <<"total", Dict(<< <<"$sum", Str("$totalPrice")>> >>)>> >>)>> >>)
AddExpression == Dict(<< <<"$add", List(<<Str("$unitPrice"), Str("$quantity")>>)>> >>)
\* a stage whose operator is written in camelCase
AddFieldsStage == Dict(<< <<"$addFields", Dict(<< <<"totalCost", Str("$totalPrice")>> >>)>> >>)
\* a filter on a column title as the data set spells it, with a space
SpacedFilter == Dict(<< <<"Department Name", Str("Water Resources")>> >>)
\* a filter on a key of field_mappings, its value a reference to a name that is not one
SupplierFilter == Dict(<< <<"supplierCode", Str("$fooBar")>> >>)
Examples ==
    {DepartmentFilter, GroupStage, AddExpression, AddFieldsStage, SpacedFilter, SupplierFilter,
     Dict(<< <<"aggregate", Bool(TRUE)>>,
             <<"pipeline", List(<<GroupStage,
                                  Dict(<< <<"$sort", Dict(<< <<"total_purchases", Num(5)>> >>)>> >>),
                                  LimitStage>>)>> >>),
     Dict(<< <<"aggregate", Bool(TRUE)>>, <<"pipeline", List(<<MatchStage>>)>>,
             <<"$match", Dict(<<>>)>>, <<"departmentName", Str("$fooBar")>> >>)}

\* one-item filters whose key is any str of 1..MaxKeyLen characters drawn from a
\* lower-case letter, an upper-case letter, a digit, an underscore and a space
MaxKeyLen == 3
KeyAlphabet == {"a", "B", "1", "_", " "}

RECURSIVE KeyStrings(_)
KeyStrings(n) ==
    IF n = 0 THEN {""}
    ELSE {""} \cup {c \o k : c \in KeyAlphabet, k \in KeyStrings(n - 1)}

KeyedFilters == {Dict(<< <<k, Str("yes")>> >>) : k \in KeyStrings(MaxKeyLen) \ {""}}

Replies ==
    Scalars \cup TopDicts \cup TopLists \cup Chains(MaxDepth) \cup Examples \cup KeyedFilters

----------------------------------------------------------------------------
(* generate_query, from the parsed reply to its return or raise *)

\* __init__ (lines 121-124): empty error log, both counters at zero
Constructed ==
    /\ success_count = 0
    /\ error_count = 0
    /\ error_log = <<>>

\* process_questions_file is not running
NoBatch ==
    /\ input_file = <<>>
    /\ line_number = 0
    /\ question = ""
    /\ successful_queries = <<>>
    /\ summary = Unset

\* the class DatabaseConnection as its definition leaves it: the class
\* attributes are None, nothing has been called
ClassDefined ==
    /\ instance = 0
    /\ client = 0
    /\ objects = 0
    /\ clients = 0
    /\ warmed = FALSE
    /\ db_pc = "idle"
    /\ via = ""
    /\ db_history = <<>>

\* neither module of src/eval is loaded
NoConnection ==
    /\ db_module = ""
    /\ ClassDefined

\* _call_openai_with_retry is not running
NoRetry ==
    /\ max_retries = 0
    /\ attempt = 0
    /\ api_calls = <<>>
    /\ sleeps = <<>>
    /\ retry_pc = "idle"
    /\ response_content = [t |-> "unset", v |-> "unset"]

NoPrompts ==
    /\ num_prompts = 0
    /\ prompts = <<>>
    /\ batch_size = 0
    /\ prompts_pc = "idle"
    /\ returned_prompts = <<>>

NoLoader ==
    /\ rows_read = 0
    /\ store_ops = <<>>
    /\ offset = 0
    /\ loader_pc = "idle"

NoFinetune ==
    /\ train_exists = FALSE
    /\ val_exists = FALSE
    /\ train_file_id = Unset
    /\ val_file_id = Unset
    /\ job_id = Unset
    /\ ft_calls = <<>>
    /\ ft_pc = "idle"

NoEvaluation ==
    /\ questions = <<>>
    /\ generated_query = Unset
    /\ execution_result = Unset
    /\ claude_eval = Unset
    /\ evaluation = Unset
    /\ results = <<>>
    /\ total_score = 0
    /\ execution_successes = 0
    /\ aggregate_results = Unset
    /\ eval_pc = "idle"

NoExecutor ==
    /\ payload = Unset
    /\ store_calls = <<>>

\* none of the other programs of the repository is running
NoTools ==
    /\ NoRetry
    /\ NoPrompts
    /\ NoLoader
    /\ NoFinetune
    /\ NoEvaluation
    /\ NoExecutor

Init ==
    /\ pc = "parsed"
    /\ parsed \in Replies
    /\ fixed = Unset
    /\ normalized = Unset
    /\ result = Unset
    /\ error = ""
    /\ calls = <<>>
    /\ valid = Unset
    /\ Constructed
    /\ NoBatch
    /\ inflight = <<>>
    /\ NoConnection
    /\ NoTools

\* the except clause of generate_query: raise Exception(f"Error generating query: {str(e)}")
Reraise(msg) == "Error generating query: " \o msg

\* query = self.validate_and_fix_query(query)
ValidateAndFix ==
    /\ pc = "parsed"
    /\ calls' = Append(calls, "validate_and_fix_query")
    /\ LET q == validate_and_fix_query(parsed)
       IN IF q.t = "raise"
          THEN /\ pc' = "raised"
               /\ error' = Reraise(q.v)
               /\ UNCHANGED fixed
          ELSE /\ pc' = "fixed"
               /\ fixed' = q
               /\ UNCHANGED error
    /\ UNCHANGED <<parsed, normalized, result>>
    /\ UNCHANGED <<valid, generator_vars, batch_vars, inflight, db_vars, tool_vars>>

\* a faulty step: the renamed tree is also written back over the parsed reply
NormalizeFieldNames_in_place ==
    /\ pc = "fixed"
    /\ calls' = Append(calls, "normalize_field_names")
    /\ normalized' = normalize_field_names(fixed)
    /\ parsed' = normalize_field_names(fixed)
    /\ pc' = "normalized"
    /\ UNCHANGED <<fixed, result, error>>
    /\ UNCHANGED <<valid, generator_vars, batch_vars, inflight, db_vars, tool_vars>>

\* query = self.normalize_field_names(query)
NormalizeFieldNames ==
    /\ pc = "fixed"
    /\ calls' = Append(calls, "normalize_field_names")
    /\ normalized' = normalize_field_names(fixed)
    /\ pc' = "normalized"
    /\ UNCHANGED <<parsed, fixed, result, error>>
    /\ UNCHANGED <<valid, generator_vars, batch_vars, inflight, db_vars, tool_vars>>

\* if not self.is_valid_query_structure(query): raise ValueError(...); return query
FinalValidation ==
    /\ pc = "normalized"
    /\ calls' = Append(calls, "is_valid_query_structure")
    /\ IF is_valid_query_structure(normalized)
       THEN /\ pc' = "returned"
            /\ result' = normalized
            /\ UNCHANGED error
       ELSE /\ pc' = "raised"
            /\ error' = Reraise("Invalid query structure after fixes")
            /\ UNCHANGED result
    /\ UNCHANGED <<parsed, fixed, normalized>>
    /\ UNCHANGED <<valid, generator_vars, batch_vars, inflight, db_vars, tool_vars>>

Next == ValidateAndFix \/ NormalizeFieldNames \/ FinalValidation

Spec == Init /\ [][Next]_vars

----------------------------------------------------------------------------
(* is_valid_query_structure called on its own, on any value json.loads can give *)

ValidateInit ==
    /\ pc = "payload"
    /\ parsed \in Replies
    /\ fixed = Unset
    /\ normalized = Unset
    /\ result = Unset
    /\ error = ""
    /\ calls = <<>>
    /\ valid = Unset
    /\ Constructed
    /\ NoBatch
    /\ inflight = <<>>
    /\ NoConnection
    /\ NoTools

\* self.is_valid_query_structure(query), query being the payload
IsValidQueryStructure ==
    /\ pc = "payload"
    /\ calls' = Append(calls, "is_valid_query_structure")
    /\ valid' = Bool(is_valid_query_structure(parsed))
    /\ pc' = "checked"
    /\ UNCHANGED <<parsed, fixed, normalized, result, error>>
    /\ UNCHANGED <<generator_vars, batch_vars, inflight, db_vars, tool_vars>>

ValidateNext == IsValidQueryStructure

SpecValidate == ValidateInit /\ [][ValidateNext]_vars

----------------------------------------------------------------------------
(* process_questions_file: the question loop around generate_query *)

MaxLines == 3     \* most lines of an input file

\* str.strip()
Whitespace == {" ", "\n", "\t"}

RECURSIVE lstrip(_)
lstrip(s) ==
    IF Len(s) >= 1 /\ Char(s, 1) \in Whitespace THEN lstrip(DropFirst(s)) ELSE s

RECURSIVE rstrip(_)
rstrip(s) ==
    IF Len(s) >= 1 /\ Char(s, Len(s)) \in Whitespace
    THEN rstrip(SubSeq(s, 1, Len(s) - 1))
    ELSE s

strip(s) == rstrip(lstrip(s))

\* the lines of an input file: two questions and a blank line
Lines == {"Total spending?\n", "  Top suppliers? \n", " \n"}
InputFiles == UNION {[1..n -> Lines] : n \in 0..MaxLines}

\* what json.loads gives for the reply to a question
BatchReplies ==
    {Str("just a string"), DepartmentFilter, GroupStage, Dict(<< <<"Aggregate", Str("yes")>> >>)}

\* str(e) of an exception raised before the reply is parsed: by
\* self.client.messages.create, or by json.loads on a reply that is not JSON
ReplyFailures == {"Connection error.", "Expecting value: line 1 column 1 (char 0)"}

\* len(results) of an executed query, and str(e) of a failed execution
ResultCounts == {0, 5}
ExecutionFailure == "operation failed"

BatchInit ==
    /\ pc = "loop"
    /\ input_file \in InputFiles
    /\ line_number = 0
    /\ question = ""
    /\ successful_queries = <<>>
    /\ summary = Unset
    /\ Constructed
    /\ parsed = Unset
    /\ fixed = Unset
    /\ normalized = Unset
    /\ result = Unset
    /\ error = ""
    /\ calls = <<>>
    /\ valid = Unset
    /\ inflight = <<>>
    /\ NoConnection
    /\ NoTools

\* for line_number, question in enumerate(f, 1): question = question.strip();
\* a blank line is skipped, any other line starts a generate_query call
ReadLine ==
    /\ pc = "loop"
    /\ line_number < Len(input_file)
    /\ line_number' = line_number + 1
    /\ question' = strip(input_file[line_number + 1])
    /\ pc' = IF question' = "" THEN "loop" ELSE "asked"
    /\ parsed' = Unset
    /\ fixed' = Unset
    /\ normalized' = Unset
    /\ result' = Unset
    /\ error' = ""
    /\ calls' = <<>>
    /\ UNCHANGED <<input_file, successful_queries, summary, valid, generator_vars, inflight, db_vars, tool_vars>>

\* generate_query up to query = json.loads(response): the reply is parsed, or
\* the API call or json.loads raises and the except clause re-raises
AskModel ==
    /\ pc = "asked"
    /\ \/ \E reply \in BatchReplies :
             /\ parsed' = reply
             /\ pc' = "parsed"
             /\ UNCHANGED error
       \/ \E msg \in ReplyFailures :
             /\ error' = Reraise(msg)
             /\ pc' = "raised"
             /\ UNCHANGED parsed
    /\ UNCHANGED <<fixed, normalized, result, calls>>
    /\ UNCHANGED <<valid, generator_vars, batch_vars, inflight, db_vars, tool_vars>>

\* success, results = self.run_query(query) and the two branches on success
RunQuery ==
    /\ pc = "returned"
    /\ \/ \E n \in ResultCounts :
             /\ success_count' = success_count + 1
             /\ successful_queries' =
                   Append(successful_queries,
                          Dict(<< <<"question", Str(question)>>,
                                  <<"query", result>>,
                                  <<"result_count", Num(n)>> >>))
             /\ UNCHANGED <<error_count, error_log>>
       \/ /\ error_count' = error_count + 1
          /\ error_log' =
                Append(error_log,
                       Dict(<< <<"line_number", Num(line_number)>>,
                               <<"question", Str(question)>>,
                               <<"query", result>>,
                               <<"error", Str("Query execution failed: " \o ExecutionFailure)>> >>))
          /\ UNCHANGED <<success_count, successful_queries>>
    /\ pc' = "loop"
    /\ UNCHANGED <<parsed, fixed, normalized, result, error, calls>>
    /\ UNCHANGED <<valid, input_file, line_number, question, summary, inflight, db_vars, tool_vars>>

\* a faulty loop body: the inner try/except is missing, the exception of
\* generate_query leaves the loop and ends process_questions_file
CatchException_abort ==
    /\ pc = "raised"
    /\ pc' = "aborted"
    /\ UNCHANGED <<parsed, fixed, normalized, result, error, calls>>
    /\ UNCHANGED <<valid, generator_vars, batch_vars, inflight, db_vars, tool_vars>>

\* except Exception as e: the failure is counted and logged, the loop goes on
CatchException ==
    /\ pc = "raised"
    /\ error_count' = error_count + 1
    /\ error_log' =
          Append(error_log,
                 Dict(<< <<"line_number", Num(line_number)>>,
                         <<"question", Str(question)>>,
                         <<"error", Str("Error processing question: " \o error)>> >>))
    /\ pc' = "loop"
    /\ UNCHANGED success_count
    /\ UNCHANGED <<parsed, fixed, normalized, result, error, calls>>
    /\ UNCHANGED <<valid, batch_vars, inflight, db_vars, tool_vars>>

\* the figures of the summary: "Total questions processed", "Successful
\* queries", "Failed queries", and the two terms of the "Success rate"
\* self.success_count / line_number
printed_summary ==
    [total_questions_processed |-> line_number,
     successful_queries |-> success_count,
     failed_queries |-> error_count,
     success_rate |-> [numerator |-> success_count, denominator |-> line_number]]

\* the end of the file: the two files are saved and the summary is printed;
\* with no line read `line_number` is unbound and the outer handler exits
Summary ==
    /\ pc = "loop"
    /\ line_number = Len(input_file)
    /\ pc' = IF Len(input_file) = 0 THEN "exited" ELSE "done"
    /\ summary' = IF Len(input_file) = 0 THEN summary ELSE printed_summary
    /\ UNCHANGED <<parsed, fixed, normalized, result, error, calls>>
    /\ UNCHANGED <<input_file, line_number, question, successful_queries>>
    /\ UNCHANGED <<valid, generator_vars, inflight, db_vars, tool_vars>>

BatchNext ==
    \/ ReadLine
    \/ AskModel
    \/ ValidateAndFix
    \/ NormalizeFieldNames
    \/ FinalValidation
    \/ RunQuery
    \/ CatchException
    \/ Summary

SpecBatch == BatchInit /\ [][BatchNext]_vars

----------------------------------------------------------------------------
(* several generate_query calls on one generator, their steps interleaved;  *)
(* each call has its own locals, as the frames of the Python calls do       *)

NumCalls == 2     \* calls in flight

ConcurrentReplies ==
    {Str("just a string"), DepartmentFilter, GroupStage, SupplierFilter,
     Dict(<< <<"Aggregate", Str("yes")>> >>),
     Dict(<< <<"aggregate", Bool(FALSE)>>, <<"pipeline", List(<<MatchStage>>)>> >>),
     List(<<MatchStage, LimitStage>>), List(<<Str("$fooBar")>>)}

\* the locals of a call whose reply has just been parsed
Frame(reply) ==
    [pc |-> "parsed", parsed |-> reply, fixed |-> Unset, normalized |-> Unset,
     result |-> Unset, error |-> ""]

ConcurrentInit ==
    /\ inflight \in [1..NumCalls -> {Frame(reply) : reply \in ConcurrentReplies}]
    /\ pc = "interleaved"
    /\ parsed = Unset
    /\ fixed = Unset
    /\ normalized = Unset
    /\ result = Unset
    /\ error = ""
    /\ calls = <<>>
    /\ valid = Unset
    /\ Constructed
    /\ NoBatch
    /\ NoConnection
    /\ NoTools

\* call i: query = self.validate_and_fix_query(query)
CallValidateAndFix(i) ==
    /\ inflight[i].pc = "parsed"
    /\ LET q == validate_and_fix_query(inflight[i].parsed)
       IN inflight' =
             [inflight EXCEPT ![i] =
                 IF q.t = "raise"
                 THEN [@ EXCEPT !.pc = "raised", !.error = Reraise(q.v)]
                 ELSE [@ EXCEPT !.pc = "fixed", !.fixed = q]]
    /\ UNCHANGED <<call_vars, valid, generator_vars, batch_vars, db_vars, tool_vars>>

\* a faulty step: the query is kept in one slot of the generator that all calls
\* share (the one call 1 writes) instead of a local of the call
CallNormalizeFieldNames_shared(i) ==
    /\ inflight[i].pc = "fixed"
    /\ inflight' =
          [inflight EXCEPT ![i] =
              [@ EXCEPT !.pc = "normalized",
                        !.normalized = normalize_field_names(inflight[1].fixed)]]
    /\ UNCHANGED <<call_vars, valid, generator_vars, batch_vars, db_vars, tool_vars>>

\* call i: query = self.normalize_field_names(query)
CallNormalizeFieldNames(i) ==
    /\ inflight[i].pc = "fixed"
    /\ inflight' =
          [inflight EXCEPT ![i] =
              [@ EXCEPT !.pc = "normalized",
                        !.normalized = normalize_field_names(inflight[i].fixed)]]
    /\ UNCHANGED <<call_vars, valid, generator_vars, batch_vars, db_vars, tool_vars>>

\* call i: the final validation, then return query or raise
CallFinalValidation(i) ==
    /\ inflight[i].pc = "normalized"
    /\ inflight' =
          [inflight EXCEPT ![i] =
              IF is_valid_query_structure(inflight[i].normalized)
              THEN [@ EXCEPT !.pc = "returned", !.result = inflight[i].normalized]
              ELSE [@ EXCEPT !.pc = "raised",
                             !.error = Reraise("Invalid query structure after fixes")]]
    /\ UNCHANGED <<call_vars, valid, generator_vars, batch_vars, db_vars, tool_vars>>

ConcurrentNext ==
    \E i \in 1..NumCalls :
        \/ CallValidateAndFix(i)
        \/ CallNormalizeFieldNames(i)
        \/ CallFinalValidation(i)

SpecConcurrent == ConcurrentInit /\ [][ConcurrentNext]_vars

----------------------------------------------------------------------------
(* DatabaseConnection of src/eval/query_demo.py and src/eval/model_evaluator.py: *)
(* any sequence of get_instance() calls and direct constructions, one at a time  *)

MaxCalls == 4     \* most calls (get_instance or construction) of a run

DbModules == {"query_demo", "model_evaluator"}

\* the other working variables are not in use
NoGenerator ==
    /\ pc = "idle"
    /\ parsed = Unset
    /\ fixed = Unset
    /\ normalized = Unset
    /\ result = Unset
    /\ error = ""
    /\ calls = <<>>
    /\ valid = Unset
    /\ Constructed
    /\ NoBatch
    /\ inflight = <<>>

DbInit ==
    /\ db_module \in DbModules
    /\ ClassDefined
    /\ NoGenerator
    /\ NoTools

\* the entry of a call that has ended: object is the number of the
\* DatabaseConnection it gave back, 0 when it raised
Ended(call, object) == [call |-> call, object |-> object]

\* DatabaseConnection.get_instance(): the stored instance is returned, or a
\* construction starts
GetInstance ==
    /\ db_pc = "idle"
    /\ Len(db_history) < MaxCalls
    /\ IF instance # 0
       THEN /\ db_history' = Append(db_history, Ended("get_instance", instance))
            /\ UNCHANGED <<objects, db_pc, via>>
       ELSE /\ objects' = objects + 1
            /\ via' = "get_instance"
            /\ db_pc' = "init"
            /\ UNCHANGED db_history
    /\ UNCHANGED <<db_module, instance, client, clients, warmed>>
    /\ UNCHANGED <<call_vars, valid, generator_vars, batch_vars, inflight, tool_vars>>

\* DatabaseConnection(): a construction that does not go through get_instance
Construct ==
    /\ db_pc = "idle"
    /\ Len(db_history) < MaxCalls
    /\ objects' = objects + 1
    /\ via' = "direct"
    /\ db_pc' = "init"
    /\ UNCHANGED <<db_module, instance, client, clients, warmed, db_history>>
    /\ UNCHANGED <<call_vars, valid, generator_vars, batch_vars, inflight, tool_vars>>

\* a faulty __init__: the test `client is None` is missing, every
\* construction calls initialize_connection
InitObject_always_connects ==
    /\ db_pc = "init"
    /\ \/ /\ clients' = clients + 1
          /\ client' = clients + 1
          /\ db_pc' = IF db_module = "model_evaluator" THEN "warm_up" ELSE "constructed"
          /\ UNCHANGED db_history
       \/ /\ db_history' = Append(db_history, Ended(via, 0))
          /\ db_pc' = "idle"
          /\ UNCHANGED <<client, clients>>
    /\ UNCHANGED <<db_module, instance, objects, warmed, via>>
    /\ UNCHANGED <<call_vars, valid, generator_vars, batch_vars, inflight, tool_vars>>

\* __init__: with a client already there nothing is done; else
\* initialize_connection either creates the MongoClient and stores it, or
\* raises before a client is stored (a missing parameter, a failing MongoClient)
InitObject ==
    /\ db_pc = "init"
    /\ IF client # 0
       THEN /\ db_pc' = "constructed"
            /\ UNCHANGED <<client, clients, db_history>>
       ELSE \/ /\ clients' = clients + 1
               /\ client' = clients + 1
               /\ db_pc' = IF db_module = "model_evaluator" THEN "warm_up" ELSE "constructed"
               /\ UNCHANGED db_history
            \/ /\ db_history' = Append(db_history, Ended(via, 0))
               /\ db_pc' = "idle"
               /\ UNCHANGED <<client, clients>>
    /\ UNCHANGED <<db_module, instance, objects, warmed, via>>
    /\ UNCHANGED <<call_vars, valid, generator_vars, batch_vars, inflight, tool_vars>>

\* model_evaluator's __init__: self.warm_up_connection() after
\* initialize_connection; find_one succeeds, or raises out of __init__
WarmUpInInit ==
    /\ db_pc = "warm_up"
    /\ \/ /\ warmed' = TRUE
          /\ db_pc' = "constructed"
          /\ UNCHANGED db_history
       \/ /\ db_history' = Append(db_history, Ended(via, 0))
          /\ db_pc' = "idle"
          /\ UNCHANGED warmed
    /\ UNCHANGED <<db_module, instance, client, objects, clients, via>>
    /\ UNCHANGED <<call_vars, valid, generator_vars, batch_vars, inflight, tool_vars>>

\* the construction is over: get_instance stores the new object in _instance
\* and returns it, a direct construction gives the new object to its caller
Constructed_object ==
    /\ db_pc = "constructed"
    /\ instance' = IF via = "get_instance" THEN objects ELSE instance
    /\ db_history' = Append(db_history, Ended(via, objects))
    /\ db_pc' = "idle"
    /\ UNCHANGED <<db_module, client, objects, clients, warmed, via>>
    /\ UNCHANGED <<call_vars, valid, generator_vars, batch_vars, inflight, tool_vars>>

\* query_demo's initialize_application: db_connection.warm_up_connection() on
\* the instance get_instance returned; find_one succeeds or raises
WarmUpConnection ==
    /\ db_pc = "idle"
    /\ db_module = "query_demo"
    /\ instance # 0
    /\ ~warmed
    /\ warmed' \in BOOLEAN
    /\ UNCHANGED <<db_module, instance, client, objects, clients, db_pc, via, db_history>>
    /\ UNCHANGED <<call_vars, valid, generator_vars, batch_vars, inflight, tool_vars>>

DbNext ==
    \/ GetInstance
    \/ Construct
    \/ InitObject
    \/ WarmUpInInit
    \/ Constructed_object
    \/ WarmUpConnection

SpecDb == DbInit /\ [][DbNext]_vars

----------------------------------------------------------------------------
(* the programs that are not running while one of the others runs *)

\* neither the query generator nor DatabaseConnection is in use
NoCore ==
    /\ NoGenerator
    /\ NoConnection

\* only _call_openai_with_retry runs
OnlyRetry ==
    /\ NoCore
    /\ NoPrompts
    /\ NoLoader
    /\ NoFinetune
    /\ NoEvaluation
    /\ NoExecutor

\* only generate_prompts runs, with its calls of _call_openai_with_retry
OnlyPrompts ==
    /\ NoCore
    /\ NoLoader
    /\ NoFinetune
    /\ NoEvaluation
    /\ NoExecutor

\* only load_data runs
OnlyLoader ==
    /\ NoCore
    /\ NoRetry
    /\ NoPrompts
    /\ NoFinetune
    /\ NoEvaluation
    /\ NoExecutor

\* only finetune_model.main runs
OnlyFinetune ==
    /\ NoCore
    /\ NoRetry
    /\ NoPrompts
    /\ NoLoader
    /\ NoEvaluation
    /\ NoExecutor

\* only run_evaluation runs
OnlyEvaluation ==
    /\ NoCore
    /\ NoRetry
    /\ NoPrompts
    /\ NoLoader
    /\ NoFinetune
    /\ NoExecutor

\* only the executors run
OnlyExecutors ==
    /\ NoCore
    /\ NoRetry
    /\ NoPrompts
    /\ NoLoader
    /\ NoFinetune
    /\ NoEvaluation

----------------------------------------------------------------------------
(* GPT4QueryGenerator._call_openai_with_retry of                             *)
(* src/dataset_generation/natural_lanaguage_query_generator.py               *)

MaxRetries == 5   \* largest --max-retries

\* response.choices[0].message.content of a call that succeeds
Contents ==
    {Str(""), Str("\n"), Str("Orders per month?"),
     Str("Top suppliers?\nOrders per month?"),
     Str(" Top suppliers? \n\nOrders per month?\nTop suppliers?"),
     Str("  \n \n")}

\* the entry of one chat.completions.create call
ApiCall(ok, content) == [ok |-> ok, content |-> content]

RetryInit ==
    /\ max_retries \in 0..MaxRetries
    /\ attempt = 0
    /\ api_calls = <<>>
    /\ sleeps = <<>>
    /\ retry_pc = "loop"
    /\ response_content = Unset
    /\ OnlyRetry

\* the call of attempt `attempt` succeeds: return response.choices[0].message.content
ApiCallSucceeds ==
    /\ retry_pc = "loop"
    /\ attempt < max_retries
    /\ \E content \in Contents :
          /\ api_calls' = Append(api_calls, ApiCall(TRUE, content))
          /\ response_content' = content
    /\ retry_pc' = "returned"
    /\ UNCHANGED <<max_retries, attempt, sleeps>>
    /\ UNCHANGED outside_retry

\* the call of attempt `attempt` raises: after the last attempt None is
\* returned, after any other the back-off follows
ApiCallFails ==
    /\ retry_pc = "loop"
    /\ attempt < max_retries
    /\ api_calls' = Append(api_calls, ApiCall(FALSE, Null))
    /\ IF attempt = max_retries - 1
       THEN /\ response_content' = Null
            /\ retry_pc' = "returned"
       ELSE /\ retry_pc' = "sleep"
            /\ UNCHANGED response_content
    /\ UNCHANGED <<max_retries, attempt, sleeps>>
    /\ UNCHANGED outside_retry

\* a faulty back-off: time.sleep(2 * attempt)
Backoff_linear ==
    /\ retry_pc = "sleep"
    /\ sleeps' = Append(sleeps, 2 * attempt)
    /\ attempt' = attempt + 1
    /\ retry_pc' = "loop"
    /\ UNCHANGED <<max_retries, api_calls, response_content>>
    /\ UNCHANGED outside_retry

\* time.sleep(2 ** attempt), then the next attempt of the for loop
Backoff ==
    /\ retry_pc = "sleep"
    /\ sleeps' = Append(sleeps, 2 ^ attempt)
    /\ attempt' = attempt + 1
    /\ retry_pc' = "loop"
    /\ UNCHANGED <<max_retries, api_calls, response_content>>
    /\ UNCHANGED outside_retry

\* range(self.max_retries) is exhausted without a return (max_retries <= 0):
\* the function ends and gives None
LoopExhausted ==
    /\ retry_pc = "loop"
    /\ attempt >= max_retries
    /\ response_content' = Null
    /\ retry_pc' = "returned"
    /\ UNCHANGED <<max_retries, attempt, api_calls, sleeps>>
    /\ UNCHANGED outside_retry

RetryNext ==
    \/ ApiCallSucceeds
    \/ ApiCallFails
    \/ Backoff
    \/ LoopExhausted

SpecRetry == RetryInit /\ [][RetryNext]_vars

----------------------------------------------------------------------------
(* GPT4QueryGenerator.generate_prompts of                                    *)
(* src/dataset_generation/natural_lanaguage_query_generator.py               *)

MaxPrompts == 3   \* largest num_prompts

\* the positions of the line breaks of s
breaks(s) == {i \in 1..Len(s) : Char(s, i) = "\n"}

\* the position of the k-th line break of s, 0 before the first and
\* Len(s) + 1 after the last
break_at(s, k) ==
    IF k = 0 THEN 0
    ELSE IF k > Cardinality(breaks(s)) THEN Len(s) + 1
    ELSE CHOOSE i \in breaks(s) : Cardinality({j \in breaks(s) : j < i}) = k - 1

\* str.split('\n')
split_lines(s) ==
    [k \in 1..(Cardinality(breaks(s)) + 1) |->
        SubSeq(s, break_at(s, k - 1) + 1, break_at(s, k) - 1)]

\* `if p.strip()`
non_blank(p) == strip(p) # ""

\* [p.strip() for p in new_prompts if p.strip()]
strip_non_blank(lines) ==
    [k \in 1..Len(SelectSeq(lines, non_blank)) |->
        strip(SelectSeq(lines, non_blank)[k])]

\* new_prompts of every response
new_prompts == [content \in Contents |-> strip_non_blank(split_lines(content.v))]

\* items[:n] for n >= 0
first(items, n) == SubSeq(items, 1, IF n < Len(items) THEN n ELSE Len(items))

\* `if response_content:` (None and "" are false)
truthy(content) == content # Null /\ content.v # ""

min(a, b) == IF a < b THEN a ELSE b

PromptsInit ==
    /\ num_prompts \in 0..MaxPrompts
    /\ prompts = <<>>
    /\ batch_size = 0
    /\ prompts_pc = "while"
    /\ returned_prompts = <<>>
    /\ max_retries \in 0..MaxRetries
    /\ attempt = 0
    /\ api_calls = <<>>
    /\ sleeps = <<>>
    /\ retry_pc = "idle"
    /\ response_content = Unset
    /\ OnlyPrompts

\* while len(prompts) < num_prompts: choose batch_size and enter
\* _call_openai_with_retry
StartBatch ==
    /\ prompts_pc = "while"
    /\ Len(prompts) < num_prompts
    /\ \E randint \in 1..2 :
          batch_size' = min(randint, num_prompts - Len(prompts))
    /\ attempt' = 0
    /\ api_calls' = <<>>
    /\ sleeps' = <<>>
    /\ retry_pc' = "loop"
    /\ response_content' = Unset
    /\ prompts_pc' = "call"
    /\ UNCHANGED <<num_prompts, prompts, returned_prompts, max_retries>>
    /\ UNCHANGED outside_prompts

\* a faulty extension: prompts.extend(new_prompts)
ExtendPrompts_all ==
    /\ prompts_pc = "call"
    /\ retry_pc = "returned"
    /\ prompts' = IF truthy(response_content)
                  THEN prompts \o new_prompts[response_content]
                  ELSE prompts
    /\ retry_pc' = "idle"
    /\ prompts_pc' = "while"
    /\ UNCHANGED <<num_prompts, batch_size, returned_prompts>>
    /\ UNCHANGED <<max_retries, attempt, api_calls, sleeps, response_content>>
    /\ UNCHANGED outside_prompts

\* _call_openai_with_retry has returned: if response_content is true,
\* prompts.extend(new_prompts[:batch_size]) (and the pause between batches);
\* then the while test again
ExtendPrompts ==
    /\ prompts_pc = "call"
    /\ retry_pc = "returned"
    /\ prompts' = IF truthy(response_content)
                  THEN prompts \o first(new_prompts[response_content], batch_size)
                  ELSE prompts
    /\ retry_pc' = "idle"
    /\ prompts_pc' = "while"
    /\ UNCHANGED <<num_prompts, batch_size, returned_prompts>>
    /\ UNCHANGED <<max_retries, attempt, api_calls, sleeps, response_content>>
    /\ UNCHANGED outside_prompts

\* the while test fails: return prompts[:num_prompts]
ReturnPrompts ==
    /\ prompts_pc = "while"
    /\ Len(prompts) >= num_prompts
    /\ returned_prompts' = first(prompts, num_prompts)
    /\ prompts_pc' = "returned"
    /\ UNCHANGED <<num_prompts, prompts, batch_size>>
    /\ UNCHANGED retry_vars
    /\ UNCHANGED outside_prompts

PromptsNext ==
    \/ StartBatch
    \/ ApiCallSucceeds
    \/ ApiCallFails
    \/ Backoff
    \/ LoopExhausted
    \/ ExtendPrompts
    \/ ReturnPrompts

SpecPrompts == PromptsInit /\ [][PromptsNext]_vars

\* an API call returns a response that contains a non-blank line
UsableResponse ==
    /\ ApiCallSucceeds
    /\ new_prompts[response_content'] # <<>>

\* the program keeps running (every sleep ends, every call returns or
\* raises), and the calls yield a usable response again and again
SpecPromptsFair ==
    /\ SpecPrompts
    /\ WF_vars(PromptsNext)
    /\ SF_vars(UsableResponse)

----------------------------------------------------------------------------
(* ProcurementDataLoader.load_data of src/data_analytics/mongodb_loader.py   *)

MaxBatches == 3   \* most full batches of a load

\* batch_size of load_data
batch_size_of_load == 10000

\* len(df): around every multiple of the batch size
RowCounts ==
    {n \in {k * batch_size_of_load + d : k \in 0..MaxBatches, d \in {-1, 0, 1, 2}} :
        n >= 0 /\ n <= MaxBatches * batch_size_of_load}

\* the fields of the create_index calls, in the order of the code
IndexFields == <<"creation_date", "department_name", "supplier_name", "acquisition_type">>

\* the calls on the store; the documents are named by the number of their row:
\* documents[k - 1] is transform_row of row k
DropCall == [op |-> "drop", from |-> 0, to |-> 0, field |-> ""]
InsertMany(from, to) == [op |-> "insert_many", from |-> from, to |-> to, field |-> ""]
CollStats == [op |-> "collstats", from |-> 0, to |-> 0, field |-> ""]
CreateIndex(field) == [op |-> "create_index", from |-> 0, to |-> 0, field |-> field]

\* the create_index calls made so far
IndexesCreated == Cardinality({p \in 1..Len(store_ops) : store_ops[p].op = "create_index"})

LoaderInit ==
    /\ rows_read \in RowCounts
    /\ store_ops = <<>>
    /\ offset = 0
    /\ loader_pc = "drop"
    /\ OnlyLoader

\* self.collection.drop()
DropCollection ==
    /\ loader_pc = "drop"
    /\ store_ops' = Append(store_ops, DropCall)
    /\ loader_pc' = "read"
    /\ UNCHANGED <<rows_read, offset>>
    /\ UNCHANGED outside_loader

\* pd.read_csv and the transform_row loop: documents holds one document per
\* row of df, in order
ReadAndTransform ==
    /\ loader_pc = "read"
    /\ offset' = 0
    /\ loader_pc' = "insert"
    /\ UNCHANGED <<rows_read, store_ops>>
    /\ UNCHANGED outside_loader

\* a faulty batch: documents[i:i + batch_size + 1]
InsertBatch_overlap ==
    /\ loader_pc = "insert"
    /\ offset < rows_read
    /\ store_ops' = Append(store_ops,
                           InsertMany(offset + 1, min(offset + batch_size_of_load + 1, rows_read)))
    /\ offset' = offset + batch_size_of_load
    /\ UNCHANGED <<rows_read, loader_pc>>
    /\ UNCHANGED outside_loader

\* one turn of `for i in range(0, len(documents), batch_size)`:
\* insert_many(documents[i:i + batch_size])
InsertBatch ==
    /\ loader_pc = "insert"
    /\ offset < rows_read
    /\ store_ops' = Append(store_ops,
                           InsertMany(offset + 1, min(offset + batch_size_of_load, rows_read)))
    /\ offset' = offset + batch_size_of_load
    /\ UNCHANGED <<rows_read, loader_pc>>
    /\ UNCHANGED outside_loader

\* documents is empty or the range is exhausted: self.db.command("collstats", ...)
CheckSize ==
    /\ loader_pc = "insert"
    /\ offset >= rows_read
    /\ store_ops' = Append(store_ops, CollStats)
    /\ loader_pc' = "index"
    /\ UNCHANGED <<rows_read, offset>>
    /\ UNCHANGED outside_loader

\* the next self.collection.create_index call; after the fourth, load_data ends
CreateNextIndex ==
    /\ loader_pc = "index"
    /\ store_ops' = Append(store_ops, CreateIndex(IndexFields[IndexesCreated + 1]))
    /\ loader_pc' = IF IndexesCreated + 1 = Len(IndexFields) THEN "done" ELSE "index"
    /\ UNCHANGED <<rows_read, offset>>
    /\ UNCHANGED outside_loader

\* the running step raises: `except Exception` logs and raises again
LoadFails ==
    /\ loader_pc \in {"drop", "read", "insert", "index"}
    /\ loader_pc' = "raised"
    /\ UNCHANGED <<rows_read, store_ops, offset>>
    /\ UNCHANGED outside_loader

LoaderNext ==
    \/ DropCollection
    \/ ReadAndTransform
    \/ InsertBatch
    \/ CheckSize
    \/ CreateNextIndex
    \/ LoadFails

SpecLoader == LoaderInit /\ [][LoaderNext]_vars

----------------------------------------------------------------------------
(* main of src/training/finetune_model.py                                    *)

MaxFileIds == 3   \* most distinct file ids the API hands out

\* response.id of client.files.create
FileIdNames == <<"file-1", "file-2", "file-3", "file-4">>
FileIds == {Str(FileIdNames[k]) : k \in 1..MaxFileIds}

\* what upload_to_openai returns: response.id, or None after an exception
UploadResults == {Null, Str("")} \cup FileIds

\* what initiate_fine_tuning returns: model.id, or None after an exception
JobResults == {Null, Str(""), Str("ftjob-1"), Str("ftjob-2")}

\* what check_fine_tuning_status returns: the job, or None after an exception
StatusResults == {Null, Str("validating_files"), Str("running")}

\* `not train_file_id`, `not val_file_id`, and the else of `if job_id`
not_given(id) == id = Null \/ id.v = ""

\* one call on the file system or on the API, with what it gave
FtCall(call, arg, gave) == [call |-> call, arg |-> arg, gave |-> gave]

FinetuneInit ==
    /\ train_exists \in BOOLEAN
    /\ val_exists \in BOOLEAN
    /\ train_file_id = Unset
    /\ val_file_id = Unset
    /\ job_id = Unset
    /\ ft_calls = <<>>
    /\ ft_pc = "exists"
    /\ OnlyFinetune

\* `if not os.path.exists(train_file): return`
CheckTrainingFile ==
    /\ ft_pc = "exists"
    /\ ft_calls' = Append(ft_calls, FtCall("exists", <<"train">>, train_exists))
    /\ ft_pc' = IF train_exists THEN "exists_val" ELSE "ended"
    /\ UNCHANGED <<train_exists, val_exists, train_file_id, val_file_id, job_id>>
    /\ UNCHANGED outside_finetune

\* `if not os.path.exists(val_file): return`
CheckValidationFile ==
    /\ ft_pc = "exists_val"
    /\ ft_calls' = Append(ft_calls, FtCall("exists", <<"val">>, val_exists))
    /\ ft_pc' = IF val_exists THEN "upload_train" ELSE "ended"
    /\ UNCHANGED <<train_exists, val_exists, train_file_id, val_file_id, job_id>>
    /\ UNCHANGED outside_finetune

\* a faulty step 1: the run goes on after a failed training upload
UploadTraining_goes_on ==
    /\ ft_pc = "upload_train"
    /\ \E id \in UploadResults :
          /\ train_file_id' = id
          /\ ft_calls' = Append(ft_calls, FtCall("upload", <<"train">>, id))
    /\ ft_pc' = "upload_val"
    /\ UNCHANGED <<train_exists, val_exists, val_file_id, job_id>>
    /\ UNCHANGED outside_finetune

\* train_file_id = upload_to_openai(train_file); `if not train_file_id: return`
UploadTraining ==
    /\ ft_pc = "upload_train"
    /\ \E id \in UploadResults :
          /\ train_file_id' = id
          /\ ft_calls' = Append(ft_calls, FtCall("upload", <<"train">>, id))
          /\ ft_pc' = IF not_given(id) THEN "ended" ELSE "upload_val"
    /\ UNCHANGED <<train_exists, val_exists, val_file_id, job_id>>
    /\ UNCHANGED outside_finetune

\* val_file_id = upload_to_openai(val_file); `if not val_file_id: return`
UploadValidation ==
    /\ ft_pc = "upload_val"
    /\ \E id \in UploadResults :
          /\ val_file_id' = id
          /\ ft_calls' = Append(ft_calls, FtCall("upload", <<"val">>, id))
          /\ ft_pc' = IF not_given(id) THEN "ended" ELSE "initiate"
    /\ UNCHANGED <<train_exists, val_exists, train_file_id, job_id>>
    /\ UNCHANGED outside_finetune

\* job_id = initiate_fine_tuning(train_file_id, val_file_id, base_model)
InitiateFineTuning ==
    /\ ft_pc = "initiate"
    /\ \E id \in JobResults :
          /\ job_id' = id
          /\ ft_calls' = Append(ft_calls,
                                FtCall("jobs.create", <<train_file_id, val_file_id>>, id))
          /\ ft_pc' = IF not_given(id) THEN "ended" ELSE "status"
    /\ UNCHANGED <<train_exists, val_exists, train_file_id, val_file_id>>
    /\ UNCHANGED outside_finetune

\* status = check_fine_tuning_status(job_id), the last step
CheckStatus ==
    /\ ft_pc = "status"
    /\ \E status \in StatusResults :
          ft_calls' = Append(ft_calls, FtCall("jobs.retrieve", <<job_id>>, status))
    /\ ft_pc' = "ended"
    /\ UNCHANGED <<train_exists, val_exists, train_file_id, val_file_id, job_id>>
    /\ UNCHANGED outside_finetune

FinetuneNext ==
    \/ CheckTrainingFile
    \/ CheckValidationFile
    \/ UploadTraining
    \/ UploadValidation
    \/ InitiateFineTuning
    \/ CheckStatus

SpecFinetune == FinetuneInit /\ [][FinetuneNext]_vars

----------------------------------------------------------------------------
(* MongoDBQueryEvaluator.evaluate_query and run_evaluation of                *)
(* src/eval/model_evaluator.py                                               *)

MaxQuestions == 2   \* most questions of a questions file

\* the lines load_questions returns
QuestionTexts == <<"Total spend?", "Top suppliers?", "Orders in 2013?", "Largest order?">>

\* a number of points, in fifths of a point
Fifths(points) == 5 * points

\* what generate_mongodb_query returns: the query text, or None
GeneratedQueries == {Null, Str("{\"fiscal_year\": \"2013-2014\"}")}

\* what execute_query returns: (success, message, results), here with
\* len(results) in the place of results
ExecutionResults ==
    {[success |-> TRUE, message |-> "Query executed successfully. Found 0 results.",
      results_count |-> 0],
     [success |-> TRUE, message |-> "Query executed successfully. Found 2 results.",
      results_count |-> 2],
     [success |-> FALSE, message |-> "unknown operator: $foo", results_count |-> 0]}

\* the five scores of a reply of Claude
ScoreLists == {<<5, 5, 5, 5, 5>>, <<4, 3, 5, 2, 4>>, <<1, 1, 1, 1, 1>>}

RECURSIVE sum(_)
sum(scores) == IF scores = <<>> THEN 0 ELSE Head(scores) + sum(Tail(scores))

\* what get_claude_evaluation returns: the parsed reply with its
\* average_score = sum(scores) / len(scores), or the error Dict
ClaudeEvaluations ==
    {[scores |-> s, average_score |-> Fifths(sum(s)) \div Len(s)] : s \in ScoreLists}
    \cup {[error |-> "Expecting value", average_score |-> 0]}

\* the Dict evaluate_query returns for a failure
ErrorEntry(q, message) == [question |-> q, error |-> message, total_score |-> 0]

\* the question of the running turn of the for loop
current_question == questions[Len(results) + 1]

EvaluationInit ==
    /\ questions \in {SubSeq(QuestionTexts, 1, n) : n \in 0..MaxQuestions}
    /\ generated_query = Unset
    /\ execution_result = Unset
    /\ claude_eval = Unset
    /\ evaluation = Unset
    /\ results = <<>>
    /\ total_score = 0
    /\ execution_successes = 0
    /\ aggregate_results = Unset
    /\ eval_pc = "load"
    /\ OnlyEvaluation

\* questions = self.load_questions(questions_file)
LoadQuestions ==
    /\ eval_pc = "load"
    /\ eval_pc' = "for"
    /\ UNCHANGED <<questions, generated_query, execution_result, claude_eval, evaluation, results,
                   total_score, execution_successes, aggregate_results>>
    /\ UNCHANGED outside_evaluation

\* load_questions raises, run_evaluation logs and raises again
LoadQuestionsFails ==
    /\ eval_pc = "load"
    /\ eval_pc' = "raised"
    /\ UNCHANGED <<questions, generated_query, execution_result, claude_eval, evaluation, results,
                   total_score, execution_successes, aggregate_results>>
    /\ UNCHANGED outside_evaluation

\* the next turn of `for i, question in enumerate(questions, 1)`: evaluate_query
\* is entered
NextQuestion ==
    /\ eval_pc = "for"
    /\ Len(results) < Len(questions)
    /\ generated_query' = Unset
    /\ execution_result' = Unset
    /\ claude_eval' = Unset
    /\ evaluation' = Unset
    /\ eval_pc' = "generate"
    /\ UNCHANGED <<questions, results, total_score, execution_successes, aggregate_results>>
    /\ UNCHANGED outside_evaluation

\* query = self.generate_mongodb_query(question); `if not query` the failure
\* Dict is returned
GenerateQuery ==
    /\ eval_pc = "generate"
    /\ \E generated \in GeneratedQueries :
          /\ generated_query' = generated
          /\ IF generated = Null \/ generated.v = ""
             THEN /\ evaluation' = ErrorEntry(current_question, "Query generation failed")
                  /\ eval_pc' = "append"
             ELSE /\ eval_pc' = "execute"
                  /\ UNCHANGED evaluation
    /\ UNCHANGED <<questions, execution_result, claude_eval, results, total_score,
                   execution_successes, aggregate_results>>
    /\ UNCHANGED outside_evaluation

\* success, message, results = self.execute_query(query)
ExecuteQuery ==
    /\ eval_pc = "execute"
    /\ execution_result' \in ExecutionResults
    /\ eval_pc' = "claude"
    /\ UNCHANGED <<questions, generated_query, claude_eval, evaluation, results, total_score,
                   execution_successes, aggregate_results>>
    /\ UNCHANGED outside_evaluation

\* claude_eval = self.get_claude_evaluation(question, query, execution_result)
GetClaudeEvaluation ==
    /\ eval_pc = "claude"
    /\ claude_eval' \in ClaudeEvaluations
    /\ eval_pc' = "compile"
    /\ UNCHANGED <<questions, generated_query, execution_result, evaluation, results, total_score,
                   execution_successes, aggregate_results>>
    /\ UNCHANGED outside_evaluation

\* the scores of the evaluation under compilation
execution_score == IF execution_result.success THEN Fifths(5) ELSE 0
semantic_score == claude_eval.average_score

\* the scores, the evaluation Dict, the query file written: evaluate_query
\* returns the evaluation
CompileEvaluation ==
    /\ eval_pc = "compile"
    /\ evaluation' =
          [question |-> current_question,
           generated_query |-> generated_query,
           execution_result |-> execution_result,
           claude_evaluation |-> claude_eval,
           scores |-> [execution_score |-> execution_score,
                       semantic_score |-> semantic_score,
                       total_score |-> execution_score + semantic_score]]
    /\ eval_pc' = "append"
    /\ UNCHANGED <<questions, generated_query, execution_result, claude_eval, results, total_score,
                   execution_successes, aggregate_results>>
    /\ UNCHANGED outside_evaluation

\* writing the query file raises: `except Exception` returns the failure Dict
SaveEvaluationFails ==
    /\ eval_pc = "compile"
    /\ evaluation' = ErrorEntry(current_question, "No space left on device")
    /\ eval_pc' = "append"
    /\ UNCHANGED <<questions, generated_query, execution_result, claude_eval, results, total_score,
                   execution_successes, aggregate_results>>
    /\ UNCHANGED outside_evaluation

\* a faulty count: every successful execution counts, whatever became of the
\* evaluation
AppendResult_counts_executions ==
    /\ eval_pc = "append"
    /\ results' = Append(results, evaluation)
    /\ total_score' = IF "error" \notin DOMAIN evaluation
                      THEN total_score + evaluation.scores.total_score
                      ELSE total_score
    /\ execution_successes' =
          IF execution_result # Unset /\ execution_result.success
          THEN execution_successes + 1
          ELSE execution_successes
    /\ eval_pc' = "for"
    /\ UNCHANGED <<questions, generated_query, execution_result, claude_eval, evaluation,
                   aggregate_results>>
    /\ UNCHANGED outside_evaluation

\* results.append(evaluation) and the metrics
AppendResult ==
    /\ eval_pc = "append"
    /\ results' = Append(results, evaluation)
    /\ total_score' = IF "error" \notin DOMAIN evaluation
                      THEN total_score + evaluation.scores.total_score
                      ELSE total_score
    /\ execution_successes' =
          IF "error" \notin DOMAIN evaluation /\ evaluation.execution_result.success
          THEN execution_successes + 1
          ELSE execution_successes
    /\ eval_pc' = "for"
    /\ UNCHANGED <<questions, generated_query, execution_result, claude_eval, evaluation,
                   aggregate_results>>
    /\ UNCHANGED outside_evaluation

\* the loop has ended: num_questions = len(results) and aggregate_results
\* (the two rates are left out)
Aggregate ==
    /\ eval_pc = "for"
    /\ Len(results) >= Len(questions)
    /\ aggregate_results' = [total_questions |-> Len(results),
                             successful_executions |-> execution_successes,
                             results |-> results]
    /\ eval_pc' = "save"
    /\ UNCHANGED <<questions, generated_query, execution_result, claude_eval, evaluation, results,
                   total_score, execution_successes>>
    /\ UNCHANGED outside_evaluation

\* the results file is written and aggregate_results returned
SaveResults ==
    /\ eval_pc = "save"
    /\ eval_pc' = "returned"
    /\ UNCHANGED <<questions, generated_query, execution_result, claude_eval, evaluation, results,
                   total_score, execution_successes, aggregate_results>>
    /\ UNCHANGED outside_evaluation

\* writing the results file raises, run_evaluation logs and raises again
SaveResultsFails ==
    /\ eval_pc = "save"
    /\ eval_pc' = "raised"
    /\ UNCHANGED <<questions, generated_query, execution_result, claude_eval, evaluation, results,
                   total_score, execution_successes, aggregate_results>>
    /\ UNCHANGED outside_evaluation

EvaluationNext ==
    \/ LoadQuestions
    \/ LoadQuestionsFails
    \/ NextQuestion
    \/ GenerateQuery
    \/ ExecuteQuery
    \/ GetClaudeEvaluation
    \/ CompileEvaluation
    \/ SaveEvaluationFails
    \/ AppendResult
    \/ Aggregate
    \/ SaveResults
    \/ SaveResultsFails

SpecEvaluation == EvaluationInit /\ [][EvaluationNext]_vars

----------------------------------------------------------------------------
(* the store call chosen by IntegratedQueryGenerator.run_query               *)
(* (src/dataset_generation/claude_query_executor.py),                        *)
(* MongoDBQueryEvaluator.execute_query (src/eval/model_evaluator.py) and     *)
(* QueryAssistant.generate_and_run_query (src/eval/query_demo.py)            *)

\* self.collection.find(filter), self.collection.aggregate(pipeline), and an
\* exception raised before any call on the store
find(filter) == [call |-> "find", arg |-> filter]
aggregate(pipeline) == [call |-> "aggregate", arg |-> pipeline]
raises(exception) == [call |-> "raise", arg |-> Str(exception)]

\* the truth value Python gives a value of json.loads
truth(x) ==
    CASE x.t = "bool" -> x.v
      [] x.t = "num" -> x.v # 0
      [] x.t = "str" -> x.v # ""
      [] x.t = "null" -> FALSE
      [] OTHER -> x.v # <<>>

\* run_query(query) of claude_query_executor.py
run_query(query) ==
    IF IsDict(query) /\ HasKey(query, "aggregate")
    THEN IF truth(Get(query, "aggregate"))
         THEN IF HasKey(query, "pipeline")
              THEN aggregate(Get(query, "pipeline"))
              ELSE raises("KeyError")
         ELSE find(query)
    ELSE find(query)

\* execute_query(query) of model_evaluator.py, query_dict = json.loads(query)
execute_query(query_dict) ==
    IF IsDict(query_dict) /\ HasKey(query_dict, "aggregate")
    THEN IF HasKey(query_dict, "pipeline")
         THEN aggregate(Get(query_dict, "pipeline"))
         ELSE raises("KeyError")
    ELSE find(query_dict)

\* s holds sub as a substring
contains(s, sub) ==
    \E i \in 1..(Len(s) - Len(sub) + 1) : SubSeq(s, i, i + Len(sub) - 1) = sub

\* json.loads(json.dumps(x)) for a value of json.loads: the same value is
\* built again, item by item
RECURSIVE json_round_trip(_)
json_round_trip(x) ==
    CASE x.t = "map" ->
             Dict([i \in 1..Len(x.v) |-> <<x.v[i][1], json_round_trip(x.v[i][2])>>])
      [] x.t = "seq" -> List([i \in 1..Len(x.v) |-> json_round_trip(x.v[i])])
      [] OTHER -> x

\* run_aggregation(json.dumps(pipeline)) of query_demo.py
run_aggregation(pipeline) == aggregate(json_round_trip(pipeline))

\* generate_and_run_query of query_demo.py from query = json.loads(query_str)
\* on: `"aggregate" in query` is a key test on a dict, an element test on a
\* list, a substring test on a str and a TypeError on anything else;
\* query["aggregate"] is a TypeError on a list and on a str
generate_and_run_query(query) ==
    CASE IsDict(query) ->
             IF HasKey(query, "aggregate") /\ truth(Get(query, "aggregate"))
             THEN IF HasKey(query, "pipeline")
                  THEN run_aggregation(Get(query, "pipeline"))
                  ELSE raises("KeyError")
             ELSE find(query)
      [] IsList(query) ->
             IF \E i \in 1..Len(query.v) : query.v[i] = Str("aggregate")
             THEN raises("TypeError")
             ELSE find(query)
      [] IsStr(query) ->
             IF contains(query.v, "aggregate") THEN raises("TypeError") ELSE find(query)
      [] OTHER -> raises("TypeError")

\* the executors
Executors == {"run_query", "execute_query", "generate_and_run_query"}

\* the payloads handed to the executors
Payloads == Replies \cup {Str("no aggregate here"), Str("aggregate"), List(<<Str("aggregate")>>)}

ExecutorsInit ==
    /\ payload \in Payloads
    /\ store_calls = <<>>
    /\ OnlyExecutors

\* the store call of executor `name` is added to those chosen so far
Chooses(name, chosen) ==
    /\ \A i \in 1..Len(store_calls) : store_calls[i][1] # name
    /\ store_calls' = Append(store_calls, <<name, chosen>>)
    /\ UNCHANGED payload
    /\ UNCHANGED outside_executors

RunQueryChooses == Chooses("run_query", run_query(payload))

ExecuteQueryChooses == Chooses("execute_query", execute_query(payload))

GenerateAndRunQueryChooses ==
    Chooses("generate_and_run_query", generate_and_run_query(payload))

ExecutorsNext ==
    \/ RunQueryChooses
    \/ ExecuteQueryChooses
    \/ GenerateAndRunQueryChooses

SpecExecutors == ExecutorsInit /\ [][ExecutorsNext]_vars

----------------------------------------------------------------------------
(* vocabulary of the properties *)

Terminal == pc \in {"returned", "raised"}

\* the two failures of the normalizer, as generate_query re-raises them
InvalidQueryFormat == "Error generating query: Query format not recognized"
InvalidQueryStructure == "Error generating query: Invalid query structure after fixes"

AllCalls == <<"validate_and_fix_query", "normalize_field_names", "is_valid_query_structure">>

IsScalar(x) == x.t \in {"str", "num", "bool", "null"}
IsReference(x) == x.t = "str" /\ x.v # "" /\ SubSeq(x.v, 1, 1) = "$"
\* "$" followed by the resolved name of what follows the sigil
Renamed(x) == Str("$" \o mapping_get(SubSeq(x.v, 2, Len(x.v))))

\* the wrapper {"aggregate": true, "pipeline": p}
Wrapper(p) == Dict(<< <<"aggregate", Bool(TRUE)>>, <<"pipeline", p>> >>)

\* a Map that has "aggregate" holding a Boolean and "pipeline" holding a Sequence
BooleanAggregate(x) ==
    /\ x.t = "map"
    /\ \E i \in 1..Len(x.v) : x.v[i][1] = "aggregate" /\ x.v[i][2].t = "bool"
    /\ \E i \in 1..Len(x.v) : x.v[i][1] = "pipeline" /\ x.v[i][2].t = "seq"

\* FindShape: a Map with no "aggregate" key
FindShape(x) == x.t = "map" /\ \A i \in 1..Len(x.v) : x.v[i][1] # "aggregate"

\* AggregateShape: "aggregate" is true and "pipeline" is a Sequence of Maps
AggregateShape(x) ==
    /\ x.t = "map"
    /\ \E i \in 1..Len(x.v) : x.v[i][1] = "aggregate" /\ x.v[i][2] = Bool(TRUE)
    /\ \E i \in 1..Len(x.v) :
          /\ x.v[i][1] = "pipeline"
          /\ x.v[i][2].t = "seq"
          /\ \A j \in 1..Len(x.v[i][2].v) : x.v[i][2].v[j].t = "map"

\* item i of a dict is the last one that is stored under its new key
Survives(items, i) ==
    \A j \in (i + 1)..Len(items) : new_key_of(items[j][1]) # new_key_of(items[i][1])

\* every node of a tree, the tree itself included
RECURSIVE Nodes(_)
Nodes(x) ==
    {x} \cup
    (IF x.t = "map" THEN UNION {Nodes(x.v[i][2]) : i \in 1..Len(x.v)}
     ELSE IF x.t = "seq" THEN UNION {Nodes(x.v[i]) : i \in 1..Len(x.v)}
     ELSE {})

----------------------------------------------------------------------------
(* C1 *)

AggregateYes == Dict(<< <<"aggregate", Str("yes")>>, <<"pipeline", List(<<>>)>> >>)

\* C1: generate_query calls validate_and_fix_query, normalize_field_names and
\* is_valid_query_structure in that order; it returns the renamed tree when the
\* final check accepts it and raises "Invalid query structure after fixes"
\* exactly when the final check rejects it; {"aggregate": "yes", "pipeline": []}
\* is rejected that way.
C1_NormalizeContract ==
    /\ \E n \in 0..3 : calls = SubSeq(AllCalls, 1, n)
    /\ pc = "returned" =>
          /\ calls = AllCalls
          /\ result = normalized
          /\ FindShape(result) \/ BooleanAggregate(result)
          /\ error = ""
    /\ (Terminal /\ calls = AllCalls) =>
          (error = InvalidQueryStructure
              <=> ~(FindShape(normalized) \/ BooleanAggregate(normalized)))
    /\ error = InvalidQueryStructure =>
          pc = "raised" /\ calls = AllCalls /\ result = Unset
    /\ (parsed = AggregateYes /\ Terminal) => error = InvalidQueryStructure

C1_Witness ==
    /\ pc = "raised"
    /\ parsed = AggregateYes
    /\ normalized = AggregateYes
    /\ error = InvalidQueryStructure

----------------------------------------------------------------------------
(* C2 *)

\* C2 as stated: every payload generate_query returns is a FindShape or an
\* AggregateShape ("aggregate" is true, "pipeline" is a Sequence of Maps).
C2_ReturnedShapeAsStated ==
    pc = "returned" => FindShape(result) \/ AggregateShape(result)

\* C2, amended: every payload generate_query returns is a Map with no
\* "aggregate" key, or a Map whose "aggregate" is a Boolean (true or false) and
\* whose "pipeline" is a Sequence (of elements of any kind); a renamed tree of
\* any other form is rejected, never returned.
C2_ReturnedShape ==
    /\ pc = "returned" => FindShape(result) \/ BooleanAggregate(result)
    /\ (Terminal /\ normalized # Unset
            /\ ~(FindShape(normalized) \/ BooleanAggregate(normalized)))
          => pc = "raised" /\ result = Unset

C2_Witness ==
    /\ pc = "returned"
    /\ BooleanAggregate(result)
    /\ ~AggregateShape(result)
    /\ Get(result, "aggregate") = Bool(FALSE)

----------------------------------------------------------------------------
(* C3 *)

\* the elements of every list of tree x, at any depth, appear in tree y as the
\* claim describes: references renamed, dicts and lists processed, other
\* scalars kept, order and number preserved
RECURSIVE ListRule(_, _)
ListRule(x, y) ==
    IF x.t = "seq"
    THEN /\ y.t = "seq"
         /\ Len(y.v) = Len(x.v)
         /\ \A i \in 1..Len(x.v) :
               IF IsReference(x.v[i]) THEN y.v[i] = Renamed(x.v[i])
               ELSE IF IsScalar(x.v[i]) THEN y.v[i] = x.v[i]
               ELSE ListRule(x.v[i], y.v[i])
    ELSE IF x.t = "map"
    THEN /\ y.t = "map"
         /\ \A i \in 1..Len(x.v) :
               (Survives(x.v, i) /\ ~IsScalar(x.v[i][2])) =>
                  /\ HasKey(y, new_key_of(x.v[i][1]))
                  /\ ListRule(x.v[i][2], Get(y, new_key_of(x.v[i][1])))
    ELSE TRUE

\* C3: normalize_field_names treats every element of a list, at any depth,
\* like a dict value: a str element that begins with "$" has the name after the
\* sigil renamed, a dict or list element is processed recursively, other
\* scalars pass through, and the order and number of elements are preserved.
C3_ListElementsRenamed ==
    normalized # Unset => ListRule(fixed, normalized)

----------------------------------------------------------------------------
(* C4 *)

\* every dict item of tree x whose value is a field reference is stored in
\* tree y as "$" followed by the resolved name, at any depth
RECURSIVE ReferenceRule(_, _)
ReferenceRule(x, y) ==
    IF x.t = "map"
    THEN /\ y.t = "map"
         /\ \A i \in 1..Len(x.v) :
               Survives(x.v, i) =>
                  /\ HasKey(y, new_key_of(x.v[i][1]))
                  /\ IF IsReference(x.v[i][2])
                     THEN Get(y, new_key_of(x.v[i][1])) = Renamed(x.v[i][2])
                     ELSE ReferenceRule(x.v[i][2], Get(y, new_key_of(x.v[i][1])))
    ELSE IF x.t = "seq"
    THEN /\ y.t = "seq"
         /\ Len(y.v) = Len(x.v)
         /\ \A i \in 1..Len(x.v) : ReferenceRule(x.v[i], y.v[i])
    ELSE TRUE

FooBarReference == Dict(<< <<"departmentName", Str("$fooBar")>> >>)

\* C4: for every dict item, at any depth and under an operator key or a field
\* key, whose value is a str beginning with "$", the value fix_fields assigns
\* for that item is "$" followed by the resolved name of the remainder (the
\* table entry, else the snake_case conversion), and the returned dict holds it
\* under the item's new key unless a later item of the same dict is stored
\* under that key; "$fooBar" becomes "$foo_bar".
C4_ReferenceValuesRenamed ==
    pc = "normalized" =>
        /\ \A d \in {n \in Nodes(fixed) : n.t = "map"} :
              \A i \in 1..Len(d.v) :
                 IsReference(d.v[i][2]) => fix_items(d)[i][2] = Renamed(d.v[i][2])
        /\ ReferenceRule(fixed, normalized)
        /\ parsed = FooBarReference =>
              normalized = Dict(<< <<"department_name", Str("$foo_bar")>> >>)

C4_Witness ==
    /\ pc = "normalized"
    /\ parsed = GroupStage
    /\ normalized =
          Wrapper(List(<<Dict(<< <<"$group",
              Dict(<< <<"_id", Str("$department_name")>>,
                      <<"total", Dict(<< <<"$sum", Str("$total_price")>> >>)>> >>)>> >>)>>))

----------------------------------------------------------------------------
(* C5 *)

\* a Map with no "aggregate" key and none of $match, $group, $sort at its top level
FindShaped(x) ==
    /\ x.t = "map"
    /\ \A i \in 1..Len(x.v) : x.v[i][1] \notin {"aggregate", "$match", "$group", "$sort"}

\* y holds exactly the renamed keys of x
KeysRenamed(x, y) ==
    /\ y.t = "map"
    /\ \A i \in 1..Len(x.v) : \E j \in 1..Len(y.v) : y.v[j][1] = new_key_of(x.v[i][1])
    /\ \A j \in 1..Len(y.v) : \E i \in 1..Len(x.v) : y.v[j][1] = new_key_of(x.v[i][1])

\* C5 as stated: for every find-shaped input generate_query succeeds and
\* returns the renamed map, which is accepted as a find filter.
C5_FindPassesAsStated ==
    (Terminal /\ FindShaped(parsed)) =>
        /\ pc = "returned"
        /\ KeysRenamed(parsed, result)
        /\ FindShape(result)

\* C5, amended: for every Map input that has no "aggregate" key and none of
\* $match, $group, $sort at its top level, and none of whose top-level keys is
\* renamed to "aggregate" (as "Aggregate" is), generate_query succeeds: it
\* returns the map with its field names renamed, and that result is accepted as
\* a find filter; {"departmentName": "Water Resources"} gives
\* {"department_name": "Water Resources"}.
C5_FindPasses ==
    /\ (Terminal /\ FindShaped(parsed)
            /\ \A i \in 1..Len(parsed.v) : new_key_of(parsed.v[i][1]) # "aggregate") =>
          /\ pc = "returned"
          /\ fixed = parsed
          /\ KeysRenamed(parsed, result)
          /\ FindShape(result)
    /\ (Terminal /\ parsed = DepartmentFilter) =>
          result = Dict(<< <<"department_name", Str("Water Resources")>> >>)

C5_Witness ==
    /\ pc = "returned"
    /\ parsed = DepartmentFilter
    /\ result = Dict(<< <<"department_name", Str("Water Resources")>> >>)

----------------------------------------------------------------------------
(* C6 *)

\* pipeline-stage operators: the three the claim names first and the others it lists
StageOperators == {"$match", "$group", "$sort", "$limit", "$project", "$unwind"}

\* C6: every Map with a pipeline-stage-operator key at its top level ($match,
\* $group, $sort, and likewise $limit, $project, $unwind) that lacks the
\* aggregate/pipeline wrapper is turned by validate_and_fix_query into
\* {"aggregate": true, "pipeline": [the original map]}.
C6_AnyStageWrapped ==
    (/\ fixed # Unset
     /\ parsed.t = "map"
     /\ \E i \in 1..Len(parsed.v) : parsed.v[i][1] \in StageOperators
     /\ ~(HasKey(parsed, "aggregate") /\ HasKey(parsed, "pipeline")))
        => fixed = Wrapper(List(<<parsed>>))

----------------------------------------------------------------------------
(* C7 *)

HasStageKey(x) ==
    x.t = "map" /\ \E i \in 1..Len(x.v) : x.v[i][1] \in {"$match", "$group", "$sort"}

----------------------------------------------------------------------------
(* C8 *)

\* C8: validate_and_fix_query turns every list, the empty list and lists of
\* non-dict elements included, into {"aggregate": true, "pipeline": <the list>}
\* with the elements and their order unchanged; neither it nor generate_query
\* ever gives back a bare list.
C8_ListWrapped ==
    /\ (pc # "parsed" /\ parsed.t = "seq") =>
          /\ fixed = Wrapper(parsed)
          /\ pc # "raised"
    /\ fixed.t # "seq"
    /\ normalized.t # "seq"
    /\ result.t # "seq"

C8_Witness ==
    /\ pc = "returned"
    /\ parsed = List(<<Num(5), Str("$unitPrice")>>)
    /\ fixed = Wrapper(parsed)
    /\ result.t = "map"

----------------------------------------------------------------------------
(* C9 *)

\* C9: for every reply that is neither a dict nor a list (str, number, bool,
\* None) validate_and_fix_query raises "Query format not recognized" and gives
\* no payload; generate_query fails before normalize_field_names and
\* is_valid_query_structure are called.
C9_ScalarRejected ==
    (pc # "parsed" /\ IsScalar(parsed)) =>
        /\ pc = "raised"
        /\ error = InvalidQueryFormat
        /\ calls = <<"validate_and_fix_query">>
        /\ fixed = Unset
        /\ normalized = Unset
        /\ result = Unset

C9_Witness ==
    /\ pc = "raised"
    /\ parsed = Str("just a string")
    /\ error = InvalidQueryFormat
    /\ calls = <<"validate_and_fix_query">>

----------------------------------------------------------------------------
(* C10 *)

\* C10: a second pass of normalize_field_names changes nothing: for every
\* parsed reply T, normalize_field_names(normalize_field_names(T)) =
\* normalize_field_names(T), and the tree that generate_query has renamed is
\* left as it is by another normalize_field_names.
C10_RenamingIdempotent ==
    /\ pc = "parsed" =>
          normalize_field_names(normalize_field_names(parsed)) = normalize_field_names(parsed)
    /\ pc = "normalized" => normalize_field_names(normalized) = normalized

C10_Witness ==
    /\ pc = "normalized"
    /\ parsed.t = "map"
    /\ HasKey(parsed, "departmentName")
    /\ HasKey(parsed, "department_name")
    /\ HasKey(parsed, "$match")
    /\ normalized # fixed
    /\ normalize_field_names(normalized) = normalized

----------------------------------------------------------------------------
(* C11 *)

\* the number of operator keys of a dict
OperatorKeyCount(d) == Cardinality({i \in 1..Len(d.v) : StartsWithSigil(d.v[i][1])})

\* every operator key of tree x is a key of tree y at the same place, its
\* value being the processed value; no dict of y has gained or lost one
RECURSIVE OperatorKeyRule(_, _)
OperatorKeyRule(x, y) ==
    IF x.t = "map"
    THEN /\ y.t = "map"
         /\ OperatorKeyCount(y) = OperatorKeyCount(x)
         /\ \A i \in 1..Len(x.v) :
               IF StartsWithSigil(x.v[i][1])
               THEN /\ HasKey(y, x.v[i][1])
                    /\ Get(y, x.v[i][1]) = fix_fields(fix_reference(x.v[i][2]))
                    /\ OperatorKeyRule(x.v[i][2], Get(y, x.v[i][1]))
               ELSE Survives(x.v, i) =>
                       /\ HasKey(y, new_key_of(x.v[i][1]))
                       /\ OperatorKeyRule(x.v[i][2], Get(y, new_key_of(x.v[i][1])))
    ELSE IF x.t = "seq"
    THEN /\ y.t = "seq"
         /\ Len(y.v) = Len(x.v)
         /\ \A i \in 1..Len(x.v) : OperatorKeyRule(x.v[i], y.v[i])
    ELSE TRUE

AddFieldsRenamed == Dict(<< <<"$addFields", Dict(<< <<"total_cost", Str("$total_price")>> >>)>> >>)

----------------------------------------------------------------------------
(* C12 *)

SnakeCharacters == LowerCase \cup Digits \cup {"_"}

\* lower-case words (letters and digits) separated by single underscores; one
\* leading underscore, as in "_id", is let through
IsSnakeCase(s) ==
    /\ Len(s) >= 1
    /\ \A i \in 1..Len(s) : Char(s, i) \in SnakeCharacters
    /\ Char(s, Len(s)) # "_"
    /\ \A i \in 1..(Len(s) - 1) : ~(Char(s, i) = "_" /\ Char(s, i + 1) = "_")

\* a non-empty str of ASCII letters and digits
IsAlphanumeric(s) ==
    /\ Len(s) >= 1
    /\ \A i \in 1..Len(s) : Char(s, i) \in UpperCase \cup LowerCase \cup Digits

HasNoUpperCase(s) == \A i \in 1..Len(s) : Char(s, i) \notin UpperCase

\* the dicts of a tree, at every depth
DictsOf(x) == {n \in Nodes(x) : n.t = "map"}

----------------------------------------------------------------------------
(* C13 *)

\* the name the claim gives a field name: its table entry when it is a key of
\* the table, the generic conversion only when it is not
Resolved(name) ==
    IF name \in DOMAIN field_mappings
    THEN field_mappings[name]
    ELSE convert_to_snake_case(name)

\* C13: fix_fields renames a key that does not begin with "$" to its entry in
\* field_mappings whenever it is a key of that table, and to
\* convert_to_snake_case(key) only when it is not; the same holds for what
\* follows the "$" of a field reference held as a dict value ("supplierCode"
\* gives "supplier_code" from the table, "fooBar" gives "foo_bar" by
\* conversion).
C13_TablePrecedence ==
    pc = "normalized" =>
        /\ \A d \in DictsOf(fixed) : \A i \in 1..Len(d.v) :
               /\ ~StartsWithSigil(d.v[i][1]) =>
                      fix_items(d)[i][1] = Resolved(d.v[i][1])
               /\ IsReference(d.v[i][2]) =>
                      fix_items(d)[i][2] = Str("$" \o Resolved(DropFirst(d.v[i][2].v)))
        /\ parsed = SupplierFilter =>
               normalized = Dict(<< <<"supplier_code", Str("$foo_bar")>> >>)

C13_Witness ==
    /\ pc = "normalized"
    /\ parsed = Dict(<< <<"fooBar",
                 Dict(<< <<"supplierCode", Dict(<< <<"_id", Str("$totalPrice")>> >>)>> >>)>> >>)
    /\ normalized = Dict(<< <<"foo_bar",
                 Dict(<< <<"supplier_code", Dict(<< <<"_id", Str("$total_price")>> >>)>> >>)>> >>)
    /\ "supplierCode" \in DOMAIN field_mappings
    /\ "fooBar" \notin DOMAIN field_mappings

----------------------------------------------------------------------------
(* C14 *)

\* C14: is_valid_query_structure returns False for every value that is not a
\* dict; for a dict that has "aggregate" it returns True exactly when the
\* value at "aggregate" is a bool and the dict has "pipeline" and the value at
\* "pipeline" is a list; for a dict without "aggregate" it returns True
\* whatever else the dict holds.
C14_ValidateShape ==
    pc = "checked" =>
        /\ valid \in {Bool(TRUE), Bool(FALSE)}
        /\ parsed.t # "map" => valid = Bool(FALSE)
        /\ (parsed.t = "map" /\ HasKey(parsed, "aggregate")) =>
              (valid = Bool(TRUE) <=>
                  /\ Get(parsed, "aggregate").t = "bool"
                  /\ HasKey(parsed, "pipeline")
                  /\ Get(parsed, "pipeline").t = "seq")
        /\ (parsed.t = "map" /\ ~HasKey(parsed, "aggregate")) => valid = Bool(TRUE)

C14_Witness ==
    /\ pc = "checked"
    /\ parsed = Dict(<< <<"aggregate", Bool(FALSE)>>, <<"pipeline", Str("yes")>>,
                        <<"$limit", Num(5)>> >>)
    /\ valid = Bool(FALSE)

----------------------------------------------------------------------------
(* C15 *)

PipelineOnly == Dict(<< <<"pipeline", List(<<MatchStage>>)>> >>)

\* C15: validate_and_fix_query returns unchanged every dict that has none of
\* $match, $group, $sort at its top level: a dict with both "aggregate" and
\* "pipeline", a dict with only one of them, and any other dict, the empty one
\* included, come back with the same keys and values in the same order.
C15_OtherMapsUnchanged ==
    (/\ pc # "parsed"
     /\ parsed.t = "map"
     /\ \A i \in 1..Len(parsed.v) : parsed.v[i][1] \notin {"$match", "$group", "$sort"})
        => /\ fixed = parsed
           /\ error # InvalidQueryFormat

C15_Witness ==
    /\ pc = "fixed"
    /\ parsed = PipelineOnly
    /\ fixed = PipelineOnly

----------------------------------------------------------------------------
(* C16 *)

\* a generate_query call, or the handling of its outcome, is under way
InCall == pc \in {"asked", "parsed", "fixed", "normalized", "returned", "raised"}

\* the number of non-blank lines among the first n lines of the file
NonBlankCount(n) == Cardinality({i \in 1..n : strip(input_file[i]) # ""})

\* the line a log entry is recorded against
LineOf(entry) == Get(entry, "line_number").v

\* wherever the loop stands, its next step can be taken (at "fixed" the step is
\* normalize_field_names, which has no other condition and never raises)
LoopGoesOn ==
    /\ pc = "loop" => ENABLED (ReadLine \/ Summary)
    /\ pc = "asked" => ENABLED AskModel
    /\ pc = "parsed" => ENABLED ValidateAndFix
    /\ pc = "normalized" => ENABLED FinalValidation
    /\ pc = "returned" => ENABLED RunQuery
    /\ pc = "raised" => ENABLED CatchException

\* C16: in the loop of process_questions_file a failure of generate_query
\* never ends the loop: it is caught and logged against the line and question
\* it belongs to, every step but the last has a next step, every non-blank
\* line read so far has been attempted whatever the outcomes of the earlier
\* ones, and when the loop is over every line has been read and every
\* non-blank line has been counted as a success or as a failure.
C16_BatchNeverAborts ==
    /\ pc \in {"loop", "asked", "parsed", "fixed", "normalized", "returned", "raised",
               "done", "exited"}
    /\ LoopGoesOn
    /\ success_count + error_count + (IF InCall THEN 1 ELSE 0) = NonBlankCount(line_number)
    /\ Len(error_log) = error_count
    /\ \A k \in 1..Len(error_log) :
          /\ LineOf(error_log[k]) \in 1..line_number
          /\ Get(error_log[k], "question") = Str(strip(input_file[LineOf(error_log[k])]))
          /\ \A j \in 1..(k - 1) : LineOf(error_log[j]) < LineOf(error_log[k])
    /\ pc = "done" =>
          /\ line_number = Len(input_file)
          /\ success_count + error_count = NonBlankCount(Len(input_file))

C16_Witness ==
    /\ pc = "done"
    /\ input_file = <<"Total spending?\n", " \n", "  Top suppliers? \n">>
    /\ error_count = 1
    /\ success_count = 1
    /\ error_log[1] =
          Dict(<< <<"line_number", Num(1)>>,
                  <<"question", Str("Total spending?")>>,
                  <<"error", Str("Error processing question: " \o InvalidQueryFormat)>> >>)
    /\ Get(successful_queries[1], "question") = Str("Top suppliers?")

----------------------------------------------------------------------------
(* C17 *)

\* the messages of a generate_query call that fails in the normalizer
NormalizationFailures == {InvalidQueryFormat, InvalidQueryStructure}

\* some item of the entry holds the value x
Retains(entry, x) ==
    \E i \in 1..Len(entry.v) : entry.v[i][2].t = x.t /\ entry.v[i][2].v = x.v

\* the step that handles a failed normalization logs the question and the payload
FailureLoggedWithPayload ==
    (pc = "raised" /\ error \in NormalizationFailures) =>
        /\ error_count' = error_count + 1
        /\ Len(error_log') = Len(error_log) + 1
        /\ SubSeq(error_log', 1, Len(error_log)) = error_log
        /\ Retains(error_log'[Len(error_log')], Str(question))
        /\ Retains(error_log'[Len(error_log')], parsed)

\* C17: the handling of every question whose normalization fails adds exactly
\* one to error_count and exactly one entry to error_log, and that entry holds
\* both the question and the payload the model returned.
C17_FailureLoggedWithPayload == [][FailureLoggedWithPayload]_vars

----------------------------------------------------------------------------
(* C18 *)

\* a step of the normalizer leaves its input and the generator object alone
NormalizeFrame ==
    pc \in {"parsed", "fixed", "normalized"} =>
        /\ parsed' = parsed
        /\ pc \in {"fixed", "normalized"} => fixed' = fixed
        /\ pc = "normalized" => normalized' = normalized
        /\ UNCHANGED <<success_count, error_count, error_log>>
        /\ UNCHANGED <<input_file, line_number, question, successful_queries>>
        /\ pc' = "raised" => result' = Unset
        /\ pc' = "returned" => result' = normalized

\* C18: no step of validate_and_fix_query, normalize_field_names and
\* is_valid_query_structure in generate_query changes the parsed reply or the
\* tree it was handed, nor success_count, error_count or error_log; a call that
\* fails returns nothing, a call that succeeds returns the renamed tree.
C18_NormalizeFrame == [][NormalizeFrame]_vars

C18_Witness ==
    /\ pc = "raised"
    /\ error = InvalidQueryStructure
    /\ parsed = Dict(<< <<"Aggregate", Str("yes")>> >>)
    /\ fixed = parsed
    /\ normalized = Dict(<< <<"aggregate", Str("yes")>> >>)
    /\ result = Unset
    /\ error_count = 1
    /\ success_count = 1

----------------------------------------------------------------------------
(* C19 *)

\* what generate_query gives for a parsed reply when it runs alone: the
\* returned payload, or the message of the exception
RunAlone(reply) ==
    LET q == validate_and_fix_query(reply)
    IN IF q.t = "raise"
       THEN [pc |-> "raised", result |-> Unset, error |-> Reraise(q.v)]
       ELSE LET n == normalize_field_names(q)
            IN IF is_valid_query_structure(n)
               THEN [pc |-> "returned", result |-> n, error |-> ""]
               ELSE [pc |-> "raised", result |-> Unset,
                     error |-> Reraise("Invalid query structure after fixes")]

\* C19: when several generate_query calls run with their steps interleaved,
\* each on its own reply, every call that has ended has ended as it does when
\* run alone on that reply, with the same payload or the same error, in every
\* interleaving; no step changes the reply of any call.
C19_CallsIndependent ==
    \A i \in 1..NumCalls :
        /\ inflight[i].parsed \in ConcurrentReplies
        /\ inflight[i].pc \in {"returned", "raised"} =>
              /\ inflight[i].pc = RunAlone(inflight[i].parsed).pc
              /\ inflight[i].result = RunAlone(inflight[i].parsed).result
              /\ inflight[i].error = RunAlone(inflight[i].parsed).error
        /\ inflight[i].pc \in {"fixed", "normalized"} =>
              inflight[i].fixed = validate_and_fix_query(inflight[i].parsed)

C19_Witness ==
    /\ inflight[1].pc = "fixed"
    /\ inflight[1].parsed = DepartmentFilter
    /\ inflight[2].pc = "returned"
    /\ inflight[2].parsed = List(<<Str("$fooBar")>>)
    /\ inflight[2].result = Wrapper(List(<<Str("$fooBar")>>))

----------------------------------------------------------------------------
(* C20 *)

\* the objects that the get_instance calls ended so far have returned
InstancesReturned ==
    {db_history[k].object : k \in {j \in 1..Len(db_history) :
        db_history[j].call = "get_instance" /\ db_history[j].object # 0}}

\* C20: after any sequence of get_instance() calls and direct constructions,
\* at most one MongoClient has been created, the client once stored is that
\* one (so no call after a successful initialize_connection opens another),
\* and all get_instance() calls that returned have returned the same object,
\* the one kept in _instance.
C20_SingleConnection ==
    /\ clients <= 1
    /\ client = clients
    /\ Cardinality(InstancesReturned) <= 1
    /\ InstancesReturned \subseteq {instance}
    /\ instance # 0 => client # 0
    /\ objects <= MaxCalls

C20_Witness ==
    /\ db_module = "model_evaluator"
    /\ db_history = <<Ended("get_instance", 0), Ended("get_instance", 2),
                      Ended("direct", 3), Ended("get_instance", 2)>>
    /\ clients = 1
    /\ instance = 2

----------------------------------------------------------------------------
(* C21 *)

\* the calls made so far that raised
FailedCalls == {k \in 1..Len(api_calls) : ~api_calls[k].ok}

\* C21: _call_openai_with_retry makes at most max_retries API calls and none
\* after a call that succeeded, whose content it returns; it sleeps 2^attempt
\* seconds (1, 2, 4, ...) after every failed attempt but the max_retries-th;
\* after max_retries failures it returns None; it never raises.
C21_RetryContract ==
    /\ retry_pc \in {"loop", "sleep", "returned"}
    /\ Len(api_calls) <= max_retries
    /\ \A k \in 1..(Len(api_calls) - 1) : ~api_calls[k].ok
    /\ sleeps = [k \in 1..Len(sleeps) |-> 2 ^ (k - 1)]
    /\ retry_pc = "loop" => Len(sleeps) = Len(api_calls) /\ attempt = Len(api_calls)
    /\ retry_pc = "sleep" =>
          /\ Len(sleeps) = Len(api_calls) - 1
          /\ Len(api_calls) < max_retries
          /\ FailedCalls = 1..Len(api_calls)
    /\ retry_pc = "returned" =>
          IF api_calls # <<>> /\ api_calls[Len(api_calls)].ok
          THEN /\ response_content = api_calls[Len(api_calls)].content
               /\ Len(sleeps) = Cardinality(FailedCalls)
          ELSE /\ response_content = Null
               /\ Len(api_calls) = max_retries
               /\ FailedCalls = 1..max_retries
               /\ Len(sleeps) = IF max_retries = 0 THEN 0 ELSE max_retries - 1

C21_Witness ==
    /\ retry_pc = "returned"
    /\ max_retries = 3
    /\ api_calls = <<ApiCall(FALSE, Null), ApiCall(FALSE, Null), ApiCall(FALSE, Null)>>
    /\ sleeps = <<1, 2>>
    /\ response_content = Null

----------------------------------------------------------------------------
(* C22 *)

\* a call that failed after all its retries has just returned
CallGaveUp ==
    /\ prompts_pc = "call"
    /\ retry_pc = "returned"
    /\ response_content = Null

\* the step after it adds no prompt and goes back to the while test with
\* prompts still missing
GaveUpAddsNothing ==
    CallGaveUp =>
        /\ prompts' = prompts
        /\ prompts_pc' = "while"
        /\ Len(prompts') < num_prompts

ReturnedAll ==
    /\ prompts_pc = "returned"
    /\ Len(returned_prompts) = num_prompts
    /\ returned_prompts = prompts

\* C22: generate_prompts(n) never holds more than n prompts; a call that
\* failed after all its retries adds no prompt and is followed by another
\* batch attempt; and when the API calls keep yielding responses with a
\* non-blank line (which needs max_retries >= 1: with fewer no call is made),
\* generate_prompts ends and returns exactly n prompts.
C22_GeneratePrompts ==
    /\ [](Len(prompts) <= num_prompts)
    /\ [][GaveUpAddsNothing]_vars
    /\ (CallGaveUp ~> (prompts_pc = "call" /\ retry_pc = "loop"))
    /\ (max_retries >= 1 => <>ReturnedAll)

C22_Witness ==
    /\ ReturnedAll
    /\ num_prompts = 3
    /\ batch_size = 1
    /\ Len(api_calls) = 2
    /\ ~api_calls[1].ok
    /\ new_prompts[response_content] =
           <<"Top suppliers?", "Orders per month?", "Top suppliers?">>

----------------------------------------------------------------------------
(* C23 *)

\* the positions of the insert_many calls, and the p-th call being the j-th
\* of them
InsertPositions == {p \in 1..Len(store_ops) : store_ops[p].op = "insert_many"}
InsertNumber(p) == Cardinality({q \in InsertPositions : q <= p})

\* the rows inserted by the calls up to position p
RowsInsertedBy(p) ==
    IF \E q \in InsertPositions : q <= p
    THEN store_ops[CHOOSE q \in InsertPositions :
                       q <= p /\ \A r \in InsertPositions : r <= p => r <= q].to
    ELSE 0

\* C23: load_data drops the collection first and only once; the insert_many
\* calls carry the rows in CSV order, each row once: the j-th batch is rows
\* (j-1)*10000 + 1 .. min(j*10000, rows), so only the last may hold fewer than
\* 10000; an index is created only after every row was inserted; a load that
\* ends has inserted every row and created the four indexes.
C23_LoadOrder ==
    /\ \A p \in 1..Len(store_ops) : (store_ops[p].op = "drop") <=> (p = 1)
    /\ \A p \in InsertPositions :
          /\ store_ops[p].from = (InsertNumber(p) - 1) * 10000 + 1
          /\ store_ops[p].to = min(InsertNumber(p) * 10000, rows_read)
          /\ store_ops[p].from <= store_ops[p].to
          /\ store_ops[p].to - store_ops[p].from + 1 <= 10000
          /\ store_ops[p].to - store_ops[p].from + 1 < 10000 => store_ops[p].to = rows_read
    /\ \A p \in 1..Len(store_ops) :
          store_ops[p].op = "create_index" =>
              /\ RowsInsertedBy(p) = rows_read
              /\ \A q \in InsertPositions : q < p
    /\ loader_pc = "done" =>
          /\ RowsInsertedBy(Len(store_ops)) = rows_read
          /\ IndexesCreated = 4
          /\ SubSeq(store_ops, Len(store_ops) - 3, Len(store_ops)) =
                 [k \in 1..4 |-> CreateIndex(IndexFields[k])]

C23_Witness ==
    /\ loader_pc = "done"
    /\ rows_read = 20001
    /\ Cardinality(InsertPositions) = 3
    /\ store_ops[4] = InsertMany(20001, 20001)

----------------------------------------------------------------------------
(* C24 *)

\* the step of a call failed: a file is missing, or no id came back
StepFailed(c) ==
    \/ c.call = "exists" /\ ~c.gave
    \/ c.call \in {"upload", "jobs.create"} /\ (c.gave = Null \/ c.gave.v = "")

\* before position p, call `call` on `arg` gave something that is no failure
DoneBefore(p, call, arg) ==
    \E q \in 1..(p - 1) :
        /\ ft_calls[q].call = call
        /\ ft_calls[q].arg = arg
        /\ ~StepFailed(ft_calls[q])

\* C24: a fine-tuning job is created only after both files were found to
\* exist and both uploads returned a file id, and with those two ids; the
\* validation file is uploaded only after the training upload succeeded; the
\* status is checked only for a job id that was returned; a step that fails is
\* the last step of the run.
C24_StepOrder ==
    /\ \A p \in 1..Len(ft_calls) :
          /\ ft_calls[p].call = "jobs.create" =>
                /\ DoneBefore(p, "exists", <<"train">>)
                /\ DoneBefore(p, "exists", <<"val">>)
                /\ \E q, r \in 1..(p - 1) :
                      /\ q < r
                      /\ ft_calls[q] = FtCall("upload", <<"train">>, ft_calls[p].arg[1])
                      /\ ft_calls[r] = FtCall("upload", <<"val">>, ft_calls[p].arg[2])
                      /\ ~StepFailed(ft_calls[q])
                      /\ ~StepFailed(ft_calls[r])
          /\ ft_calls[p].call = "upload" /\ ft_calls[p].arg = <<"val">> =>
                DoneBefore(p, "upload", <<"train">>)
          /\ ft_calls[p].call = "jobs.retrieve" =>
                /\ p > 1
                /\ ft_calls[p - 1].call = "jobs.create"
                /\ ~StepFailed(ft_calls[p - 1])
                /\ ft_calls[p].arg = <<ft_calls[p - 1].gave>>
          /\ StepFailed(ft_calls[p]) => p = Len(ft_calls) /\ ft_pc = "ended"
    /\ \A p, q \in 1..Len(ft_calls) :
          p # q => ft_calls[p].call # ft_calls[q].call \/ ft_calls[p].arg # ft_calls[q].arg

C24_Witness ==
    /\ ft_pc = "ended"
    /\ Len(ft_calls) = 6
    /\ ft_calls[5] = FtCall("jobs.create", <<Str("file-1"), Str("file-2")>>, Str("ftjob-1"))
    /\ ft_calls[6].call = "jobs.retrieve"

----------------------------------------------------------------------------
(* C25 *)

\* the entries without "error", and those of them whose execution succeeded
Scored == {k \in 1..Len(results) : "error" \notin DOMAIN results[k]}
Succeeded == {k \in Scored : results[k].execution_result.success}

\* C25: in run_evaluation every evaluated question has exactly one entry, in
\* the order of the questions, and evaluate_query never raises (run_evaluation
\* raises only around the loop); the success counter is the number of entries
\* without "error" whose execution succeeded, between 0 and the number of
\* entries; a scored entry has total_score = execution_score + semantic_score
\* with execution_score 5 after a successful execution and 0 after a failed
\* one; an entry with "error" has total_score 0 and is no success; the summary
\* has total_questions = number of entries and successful_executions = the
\* counter.
C25_EvaluationCounts ==
    /\ Len(results) <= Len(questions)
    /\ \A k \in 1..Len(results) : results[k].question = questions[k]
    /\ eval_pc \in {"generate", "execute", "claude", "compile", "append"} =>
          Len(results) < Len(questions)
    /\ eval_pc = "raised" => results = <<>> \/ Len(results) = Len(questions)
    /\ execution_successes = Cardinality(Succeeded)
    /\ 0 <= execution_successes /\ execution_successes <= Len(results)
    /\ \A k \in Scored :
          /\ results[k].scores.total_score =
                results[k].scores.execution_score + results[k].scores.semantic_score
          /\ results[k].scores.execution_score =
                IF results[k].execution_result.success THEN 5 * 5 ELSE 0
          /\ results[k].scores.semantic_score = results[k].claude_evaluation.average_score
    /\ \A k \in (1..Len(results)) \ Scored : results[k].total_score = 0
    /\ eval_pc = "append" /\ generated_query = Null =>
          evaluation = [question |-> questions[Len(results) + 1],
                        error |-> "Query generation failed", total_score |-> 0]
    /\ aggregate_results # Unset =>
          /\ Len(results) = Len(questions)
          /\ aggregate_results.total_questions = Len(results)
          /\ aggregate_results.successful_executions = Cardinality(Succeeded)
          /\ aggregate_results.results = results

C25_Witness ==
    /\ eval_pc = "returned"
    /\ aggregate_results.total_questions = 2
    /\ aggregate_results.successful_executions = 1
    /\ results[1] = [question |-> "Total spend?", error |-> "Query generation failed",
                     total_score |-> 0]
    /\ "error" \notin DOMAIN results[2]
    /\ results[2].scores = [execution_score |-> 25, semantic_score |-> 18, total_score |-> 43]

----------------------------------------------------------------------------
(* C26 *)

\* the store call the claim expects for a payload
ExpectedCall(x) ==
    IF AggregateShape(x) \/ (BooleanAggregate(x) /\ Get(x, "aggregate") = Bool(TRUE))
    THEN [call |-> "aggregate", arg |-> Get(x, "pipeline")]
    ELSE [call |-> "find", arg |-> x]

\* C26: for every payload that is_valid_query_structure accepts, each of the
\* three executors chooses the aggregation call on the value of "pipeline"
\* when "aggregate" is true and the find call on the whole payload otherwise,
\* also when "aggregate" is false.
C26_SameStoreCall ==
    is_valid_query_structure(payload) =>
        \A i \in 1..Len(store_calls) : store_calls[i][2] = ExpectedCall(payload)

\* the payload {"aggregate": false, "pipeline": [...]}: run_query and
\* generate_and_run_query have chosen find on the payload, execute_query the
\* aggregation of its pipeline
C26_Divergence ==
    /\ is_valid_query_structure(payload)
    /\ Len(store_calls) = 3
    /\ HasKey(payload, "aggregate")
    /\ Get(payload, "aggregate") = Bool(FALSE)
    /\ \A i \in 1..3 :
          store_calls[i][2] =
              IF store_calls[i][1] = "execute_query"
              THEN [call |-> "aggregate", arg |-> Get(payload, "pipeline")]
              ELSE [call |-> "find", arg |-> payload]

\* the executors agree on every accepted payload that has no "aggregate" key
\* or has "aggregate" true
C26_AgreeElsewhere ==
    is_valid_query_structure(payload)
    /\ (HasKey(payload, "aggregate") => Get(payload, "aggregate") = Bool(TRUE)) =>
        \A i \in 1..Len(store_calls) : store_calls[i][2] = ExpectedCall(payload)

----------------------------------------------------------------------------
(* C27 *)

\* the canonical names the keys of a Map resolve to
CanonicalNames(d) == {new_key_of(d.v[i][1]) : i \in 1..Len(d.v)}

\* two distinct keys of the Map resolve to the same canonical name
KeysCollide(d) ==
    \E i, j \in 1..Len(d.v) :
        /\ i < j
        /\ d.v[i][1] # d.v[j][1]
        /\ new_key_of(d.v[i][1]) = new_key_of(d.v[j][1])

\* the last item of the Map, in iteration order, that resolves to name
LastHolder(d, name) ==
    CHOOSE i \in 1..Len(d.v) :
        /\ new_key_of(d.v[i][1]) = name
        /\ \A j \in (i + 1)..Len(d.v) : new_key_of(d.v[j][1]) # name

\* out is what the claim says of the Map d: one entry per canonical name,
\* holding the processed value of the last key that resolves to it
CollisionRule(d, out) ==
    /\ out.t = "map"
    /\ \A j, k \in 1..Len(out.v) : j # k => out.v[j][1] # out.v[k][1]
    /\ {out.v[j][1] : j \in 1..Len(out.v)} = CanonicalNames(d)
    /\ \A name \in CanonicalNames(d) :
          Get(out, name) = normalize_field_names(fix_reference(d.v[LastHolder(d, name)][2]))
    /\ KeysCollide(d) => Len(out.v) < Len(d.v)
    /\ ~KeysCollide(d) => Len(out.v) = Len(d.v)

\* C27: when two distinct keys of one Map resolve to the same canonical name,
\* normalize_field_names puts out a single entry under that name with the
\* processed value of the later key and raises nothing, so the output Map has
\* fewer entries; when all keys resolve to distinct names it has as many
\* entries as the input Map. This holds for the payload and for every Map
\* nested in it.
C27_LaterKeyWins ==
    /\ pc = "normalized" =>
          /\ CollisionRule(fixed, normalized)
          /\ \A d \in DictsOf(fixed) : CollisionRule(d, normalize_field_names(d))
    /\ pc = "raised" => fixed = Unset \/ normalized # Unset

C27_Witness ==
    /\ pc = "normalized"
    /\ fixed = Dict(<< <<"departmentName", Str("$fooBar")>>,
                       <<"department_name", Str("$supplierCode")>> >>)
    /\ normalized = Dict(<< <<"department_name", Str("$supplier_code")>> >>)

----------------------------------------------------------------------------
(* C28 *)

\* the questions of the file: its non-blank lines
QuestionCount == NonBlankCount(Len(input_file))

\* every question read so far was counted once, as a success or as a failure
CountedOnce ==
    /\ success_count = Len(successful_queries)
    /\ error_count = Len(error_log)
    /\ \A i, j \in 1..Len(error_log) : i # j => LineOf(error_log[i]) # LineOf(error_log[j])

\* C28: after process_questions_file has read the whole file, success_count +
\* error_count is the number of non-blank lines, each counted once as a
\* success or as a failure, and the "Total questions processed" figure and
\* the denominator of the success rate of the summary are that same number.
C28_SummaryCounts ==
    pc = "done" =>
        /\ success_count + error_count = QuestionCount
        /\ CountedOnce
        /\ summary.total_questions_processed = QuestionCount
        /\ summary.success_rate.denominator = QuestionCount

\* what holds of the counters and of the summary: the counters add up to the
\* number of questions, the two figures of the summary are the number of lines
C28_CountersAddUp ==
    pc = "done" =>
        /\ success_count + error_count = QuestionCount
        /\ CountedOnce
        /\ summary.total_questions_processed = Len(input_file)
        /\ summary.success_rate.denominator = Len(input_file)

\* a file with a blank line: two questions counted, three announced
C28_BlankLineCounted ==
    /\ pc = "done"
    /\ Len(input_file) = 3
    /\ QuestionCount = 2
    /\ success_count + error_count = 2
    /\ summary.total_questions_processed = 3
    /\ summary.success_rate.denominator = 3

----------------------------------------------------------------------------
(* C29 *)

\* C29: in model_evaluator, get_instance() gives back an instance only after
\* the warm-up query has succeeded on the shared client, also when an earlier
\* call created the connection and failed in the warm-up.
C29_WarmedBeforeInstance ==
    db_module = "model_evaluator" /\ InstancesReturned # {} => warmed

\* the first get_instance() created the client and raised in the warm-up, the
\* second one gave back an instance, and no warm-up query has ever succeeded
C29_ColdInstance ==
    /\ db_module = "model_evaluator"
    /\ db_history = <<Ended("get_instance", 0), Ended("get_instance", 2)>>
    /\ client = 1
    /\ instance = 2
    /\ ~warmed

\* what holds: an instance is given back only with the shared client stored
C29_ClientBeforeInstance ==
    db_module = "model_evaluator" /\ InstancesReturned # {} => client # 0

====
